---- MODULE Spec2Model ----
(***************************************************************************)
(* tinycondor: a single-file, append-only record store.                    *)
(*                                                                         *)
(* The model follows the current source (the version with withLock, the    *)
(* size ceiling and temp-file create).  One database path is modelled.     *)
(* Under Spec the calls create / load / save / clearCache run one after    *)
(* the other (no call is in flight when the next starts), every file       *)
(* system call succeeds unless the file is absent, and the path lock is    *)
(* free, so withLock runs its body and releases.                            *)
(*                                                                         *)
(* Values.  A record is a TLA+ record whose fields are the properties of   *)
(* the JavaScript object: "id" and "tm" may be absent.  Records handed to  *)
(* the engine hold JSON values: a string id, a finite number tm, a number  *)
(* val.  Text is a sequence of units: a unit is one newline, one JSON      *)
(* text of a record, or one piece of text that is not JSON.  Each unit     *)
(* counts as one byte of file size.                                        *)
(***************************************************************************)
EXTENDS Integers, Sequences, FiniteSets, TLC

VARIABLES
    file,       \* the log file at dbfile: [exists, text]
    cache,      \* CACHE.get(dbfile): [has, map]; map is in insertion order
    now,        \* the value Date.now() returns
    last,       \* the latest call: operation, arguments, result, reports
    maxSeen,    \* history: per id, the highest tm handed to the merge so far
    fresh,      \* history: the list of the latest successful create, while
                \* no save has run since
    disk,       \* the volume, step by step: dbfile, dbfile.tmp, dbfile.lock
    lock,       \* the caller that holds the path lock, 0 when it is free
    mem,        \* CACHE.get(dbfile) of each caller's process
    task,       \* each caller's call in flight: operation, position, locals
    hist,       \* history: the start of the run, faults, what saves promised
    CACHE,      \* the whole cache of one process: path -> entry
    fs,         \* the log file at each path
    cleared,    \* history: the latest clearCache call, its argument and
                \* the cache before it
    args,       \* the arguments of a function of the module called by itself
    result      \* what that function answered

callVars == <<file, cache, now, last, maxSeen, fresh>>
stepVars == <<disk, lock, mem, task, hist>>

pathVars == <<CACHE, fs, cleared>>

pureVars == <<args, result>>

vars ==
    <<file, cache, now, last, maxSeen, fresh,
      disk, lock, mem, task, hist, CACHE, fs, cleared, args, result>>

-----------------------------------------------------------------------------
(* Bounds of the model *)

MaxTm == 2          \* explicit timestamps are 1..MaxTm
MaxClock == 2       \* Date.now() ranges over 1..MaxClock
MaxBatch == 2       \* records per create/save call
MaxFileLen == 6     \* the file holds at most this many units
SmallMaxBytes == 2  \* a caller-chosen maxFileSizeBytes below the default

(* Program constants, scaled to the model's units *)

DefaultMaxBytes == 8    \* maxFileSizeBytes default, 100 * 1024 * 1024
SizeWarnBytes == 3      \* the compaction warning threshold, 50 * 1024 * 1024
TestTmLimit == 1        \* 1000000: below it a timestamp is test data
Year2020 == 1           \* new Date("2020-01-01").getTime()
YearInMs == 0           \* 365 * 24 * 60 * 60 * 1000

Ids == {"1", "2"}
Tms == 1..MaxTm

-----------------------------------------------------------------------------
(* JavaScript values *)

Has(r, k) == k \in DOMAIN r

\* !record.id is false
HasId(r) == Has(r, "id") /\ r.id # ""

\* record.tm is truthy
HasTm(r) == Has(r, "tm") /\ r.tm # 0

\* { ...rec } with delete .tm
WithoutTm(r) == [k \in DOMAIN r \ {"tm"} |-> r[k]]

\* { ...record, tm: t }
WithTm(r, t) == ("tm" :> t) @@ r

NoRec == [none |-> TRUE]
Null == [ok |-> FALSE, recs |-> <<>>]
Some(recs) == [ok |-> TRUE, recs |-> recs]
NoFile == [exists |-> FALSE, text |-> <<>>]
NoEntry == [has |-> FALSE, map |-> <<>>]

\* Map.get(id) on a map kept as the sequence of its values
mapHas(m, id) == \E i \in 1..Len(m) : m[i].id = id

mapGet(m, id) == m[CHOOSE i \in 1..Len(m) : m[i].id = id]

\* Map.set(rec.id, rec): an existing key keeps its position
mapSet(m, rec) ==
    IF mapHas(m, rec.id)
    THEN [i \in 1..Len(m) |-> IF m[i].id = rec.id THEN rec ELSE m[i]]
    ELSE Append(m, rec)

\* Array.from(recs.values())
unwrap(m) == m

-----------------------------------------------------------------------------
(* Text and JSON *)

NL == [nl |-> TRUE]

IsNL(u) == Has(u, "nl")

\* JSON.stringify(record): the JSON text of a record of JSON values
stringify(rec) == [json |-> rec]

\* a join that puts nothing between the texts
RECURSIVE join_noNewline(_)
join_noNewline(strs) ==
    IF Len(strs) = 0 THEN <<>>
    ELSE <<strs[1]>> \o join_noNewline(Tail(strs))

\* updatedStr.join("\n")
RECURSIVE join(_)
join(strs) ==
    IF Len(strs) = 0 THEN <<>>
    ELSE IF Len(strs) = 1 THEN <<strs[1]>>
    ELSE <<strs[1], NL>> \o join(Tail(strs))

\* readline: the lines of a text; a last line without newline is a line,
\* a text that ends with a newline has no empty last line
RECURSIVE readLines(_, _, _, _)
readLines(text, i, cur, out) ==
    IF i > Len(text)
    THEN IF cur = <<>> THEN out ELSE Append(out, cur)
    ELSE IF IsNL(text[i])
         THEN readLines(text, i + 1, <<>>, Append(out, cur))
         ELSE readLines(text, i + 1, Append(cur, text[i]), out)

lines(text) == readLines(text, 1, <<>>, <<>>)

\* JSON.parse(line) returns: the line is exactly one JSON text
jsonParses(line) == Len(line) = 1 /\ Has(line[1], "json")

\* typeof obj[k].  A value under id is written as a string and a value
\* under tm as a number; when the value has another type, the record says
\* so under "typeof"
typeOf(obj, k) ==
    IF Has(obj, "typeof") /\ k \in DOMAIN obj.typeof THEN obj.typeof[k]
    ELSE IF k = "id" THEN "string" ELSE "number"

\* a schema that asks for the two fields and not for their types
CondorRecSchema_anyType(obj) == Has(obj, "id") /\ Has(obj, "tm")

\* CondorRecSchema.parse(obj) returns: id is a string, tm is a number
CondorRecSchema(obj) ==
    /\ Has(obj, "id") /\ typeOf(obj, "id") = "string"
    /\ Has(obj, "tm") /\ typeOf(obj, "tm") = "number"

\* stat(dbfile).size
size(f) == Len(f.text)

-----------------------------------------------------------------------------
(* The error channel: what onErrors receives *)

Err(code, message, record) ==
    [code |-> code, message |-> message, record |-> record, linenum |-> 0]

LineErr(n, line) ==
    [code |-> "", message |-> "failed to get record from line",
     record |-> [line |-> line], linenum |-> n]

\* enhanceError(err, operation, dbfile) for a file that is absent
enhanceError(operation) ==
    Err("ENOENT", operation, [operation |-> operation])

\* validateTimestamp(tm, onErrors, recId) at clock reading t: the reports
validateTimestamp(tm, t, recId) ==
    IF tm < TestTmLimit THEN <<>>
    ELSE IF tm > t + YearInMs
         THEN <<Err("INVALID_TIMESTAMP", "too far in future", [id |-> recId])>>
         ELSE IF tm < Year2020
              THEN <<Err("INVALID_TIMESTAMP", "before 2020", [id |-> recId])>>
              ELSE <<>>

-----------------------------------------------------------------------------
(* Equality Comparator and Merge Engine *)

\* a comparator that finds every pair equal
notEq_never(c, r) == FALSE

\* a comparator that looks at tm as at any other field
notEq_withTm(c, r) == c # r

\* notEq(c, r): !equal(c without tm, r without tm); the same-reference
\* fast path returns what the comparison returns
notEq(c, r) == WithoutTm(c) # WithoutTm(r)

\* a merge that also rewrites a record of equal tm and equal content
updatedRecsAccepts_orEqual(current, rec) ==
    current = NoRec \/ current.tm <= rec.tm

\* a merge that writes a record only when it is strictly newer
updatedRecsAccepts_newerOnly(current, rec) ==
    current = NoRec \/ current.tm < rec.tm

\* a merge that writes every record that has an id
updatedRecsAccepts_always(current, rec) == TRUE

\* the condition of updatedRecs under which recWithTm is written
updatedRecsAccepts(current, rec) ==
    \/ current = NoRec
    \/ current.tm < rec.tm
    \/ (current.tm = rec.tm /\ notEq(current, rec))

\* a reader that keeps the first version of an id
lineAccepts_keepFirst(current, rec) == current = NoRec

\* the condition of the line handler of load_ under which rec is set
lineAccepts(current, rec) ==
    \/ current = NoRec
    \/ current.tm < rec.tm
    \/ (current.tm = rec.tm /\ notEq(current, rec))

\* a report that does not carry the record
missingId_noRecord(record) == Err("", "record missing id", NoRec)

\* onErrors({ message: "record missing id", record })
missingId(record) == Err("", "record missing id", record)

current(m, id) == IF mapHas(m, id) THEN mapGet(m, id) ELSE NoRec

\* a merge that replaces a timestamp ahead of the clock by the clock reading
recWithTm_plausible(record, t) ==
    IF HasTm(record) /\ record.tm <= t THEN record ELSE WithTm(record, t)

\* record.tm ? record : { ...record, tm: Date.now() }
recWithTm(record, t) == IF HasTm(record) THEN record ELSE WithTm(record, t)

\* an updatedRecs that gives the default to the caller's own object:
\* if (!record.tm) record.tm = Date.now()
callerRecord_assigned(record, t) ==
    IF HasTm(record) THEN record ELSE WithTm(record, t)

\* the caller's object after updatedRecs has handled it: the default tm is
\* given to the copy { ...record, tm: Date.now() }, record is not assigned
callerRecord(record, t) == record

\* the caller's array after recs.forEach: a record without id is left
\* before its tm is looked at
callerRecs(recs, clk) ==
    [i \in 1..Len(recs) |->
        IF HasId(recs[i]) THEN callerRecord(recs[i], clk[i]) ELSE recs[i]]

\* a merge that takes every record as it comes, with or without id
RECURSIVE forEachRecord_anyRecord(_, _, _, _)
forEachRecord_anyRecord(acc, recs, clk, i) ==
    IF i > Len(recs) THEN acc
    ELSE forEachRecord_anyRecord(
           [acc EXCEPT !.strs = Append(@, stringify(recs[i])),
                       !.recs = Append(@, recs[i])],
           recs, clk, i + 1)

\* recs.forEach of updatedRecs from record i on; clk[i] is the clock
\* reading while record i is handled
RECURSIVE forEachRecord(_, _, _, _)
forEachRecord(acc, recs, clk, i) ==
    IF i > Len(recs) THEN acc
    ELSE LET record == recs[i] IN
         IF ~HasId(record)
         THEN forEachRecord(
                [acc EXCEPT !.errs = Append(@, missingId(record))],
                recs, clk, i + 1)
         ELSE LET rec == recWithTm(record, clk[i])
                  warned == [acc EXCEPT
                               !.errs = @ \o validateTimestamp(rec.tm, clk[i], rec.id)]
              IN IF updatedRecsAccepts(current(acc.cached, rec.id), rec)
                 THEN forEachRecord(
                        [warned EXCEPT !.strs = Append(@, stringify(rec)),
                                       !.recs = Append(@, rec),
                                       !.cached = mapSet(@, rec)],
                        recs, clk, i + 1)
                 ELSE forEachRecord(warned, recs, clk, i + 1)

\* updatedRecs(cached, recs, onErrors): recs and str of the result, the
\* map as updatedRecs leaves it, the reports, and the caller's array as
\* updatedRecs leaves it
updatedRecs(cached, recs, clk) ==
    LET acc == forEachRecord(
                 [cached |-> cached, recs |-> <<>>, strs |-> <<>>, errs |-> <<>>],
                 recs, clk, 1)
    IN [recs |-> acc.recs, str |-> join(acc.strs),
        cached |-> acc.cached, errs |-> acc.errs,
        input |-> callerRecs(recs, clk)]

-----------------------------------------------------------------------------
(* Log Reader *)

\* a reader that gives up the rest of the file at the first line it cannot
\* take
RECURSIVE forEachLine_stopsAtBadLine(_, _, _, _)
forEachLine_stopsAtBadLine(ctx, ls, t, n) ==
    IF n > Len(ls) THEN ctx
    ELSE IF jsonParses(ls[n]) /\ CondorRecSchema(ls[n][1].json)
         THEN LET rec == ls[n][1].json
                  warned == [ctx EXCEPT
                               !.errs = @ \o validateTimestamp(rec.tm, t, rec.id)]
              IN IF lineAccepts(current(ctx.recs, rec.id), rec)
                 THEN forEachLine_stopsAtBadLine(
                          [warned EXCEPT !.recs = mapSet(@, rec)], ls, t, n + 1)
                 ELSE forEachLine_stopsAtBadLine(warned, ls, t, n + 1)
         ELSE [ctx EXCEPT !.errs = Append(@, LineErr(n, ls[n]))]

\* rl.on("line") of load_ for line n and the lines after it; t is the
\* clock reading of validateTimestamp
RECURSIVE forEachLine(_, _, _, _)
forEachLine(ctx, ls, t, n) ==
    IF n > Len(ls) THEN ctx
    ELSE IF jsonParses(ls[n]) /\ CondorRecSchema(ls[n][1].json)
         THEN LET rec == ls[n][1].json
                  warned == [ctx EXCEPT
                               !.errs = @ \o validateTimestamp(rec.tm, t, rec.id)]
              IN IF lineAccepts(current(ctx.recs, rec.id), rec)
                 THEN forEachLine([warned EXCEPT !.recs = mapSet(@, rec)], ls, t, n + 1)
                 ELSE forEachLine(warned, ls, t, n + 1)
         ELSE forEachLine([ctx EXCEPT !.errs = Append(@, LineErr(n, ls[n]))],
                          ls, t, n + 1)

\* a ceiling that a file of exactly that size exceeds
tooLarge_orEqual(f, maxFileSizeBytes) == size(f) >= maxFileSizeBytes

\* fileStats.size > maxFileSizeBytes
tooLarge(f, maxFileSizeBytes) == size(f) > maxFileSizeBytes

\* CACHE.get(dbfile) is a map
cacheHit(c) == c.has

\* load_(dbfile, onErrors, maxFileSizeBytes): the map it resolves with (or
\* null), the cache entry it leaves, and the reports
load_(c, f, maxFileSizeBytes, t) ==
    IF cacheHit(c)
    THEN [ret |-> Some(c.map), cache |-> c, errs |-> <<>>]
    ELSE IF ~f.exists
         THEN [ret |-> Null, cache |-> c, errs |-> <<enhanceError("load/stat")>>]
         ELSE IF tooLarge(f, maxFileSizeBytes)
              THEN [ret |-> Null, cache |-> c,
                    errs |-> <<Err("FILE_TOO_LARGE", "is too large", NoRec)>>]
              ELSE LET ctx == forEachLine([recs |-> <<>>, errs |-> <<>>],
                                          lines(f.text), t, 1)
                   IN [ret |-> Some(ctx.recs),
                       cache |-> [has |-> TRUE, map |-> ctx.recs],
                       errs |-> ctx.errs]

\* load(dbfile, onErrors, maxFileSizeBytes)
load(c, f, maxFileSizeBytes, t) ==
    LET got == load_(c, f, maxFileSizeBytes, t)
    IN [file |-> f, cache |-> got.cache,
        ret |-> IF got.ret.ok THEN Some(unwrap(got.ret.recs)) ELSE Null,
        errs |-> got.errs]

-----------------------------------------------------------------------------
(* File Creator *)

\* a stat that never finds the file
statFinds_never(f) == FALSE

\* stat(dbfile) succeeds
statFinds(f) == f.exists

\* what create returns on success
createReturns(data) == Some(data.recs)

\* create(initialRecords, dbfile, onErrors) inside withLock
create(initialRecords, c, f, clk) ==
    IF statFinds(f)
    THEN [file |-> f, cache |-> c, ret |-> Null,
          errs |-> <<Err("EEXIST", "already exists - cannot create!", NoRec)>>,
          input |-> initialRecords]
    ELSE LET data == updatedRecs(<<>>, initialRecords, clk)
             cached == [has |-> TRUE, map |-> data.cached]
         IN IF Len(data.recs) = 0
            THEN [file |-> f, cache |-> cached, ret |-> Null,
                  errs |-> Append(data.errs,
                             Err("", "failed to find any valid records", NoRec)),
                  input |-> data.input]
            ELSE \* writeFile(tempFile, data.str + "\n"), rename(tempFile, dbfile)
                 [file |-> [exists |-> TRUE, text |-> data.str \o <<NL>>],
                  cache |-> cached, ret |-> createReturns(data),
                  errs |-> data.errs, input |-> data.input]

-----------------------------------------------------------------------------
(* Durable Writer *)

\* fileEndsWithNewline(path, onErrors): the answer and the reports
fileEndsWithNewline(f) ==
    IF ~f.exists
    THEN [ends |-> TRUE,
          errs |-> <<Err("", "Failed checking fileEndsWithNewline", NoRec)>>]
    ELSE IF size(f) = 0
         THEN [ends |-> TRUE, errs |-> <<>>]
         ELSE [ends |-> IsNL(f.text[Len(f.text)]), errs |-> <<>>]

\* the stat of save: the size warning, or the report of a failed stat
saveStat(f) ==
    IF ~f.exists THEN <<enhanceError("save/stat")>>
    ELSE IF size(f) > SizeWarnBytes
         THEN <<Err("FILE_SIZE_WARNING", "is large", NoRec)>>
         ELSE <<>>

\* an append that never puts a newline first
toAppend_noLead(needsNewline, str) == str \o <<NL>>

\* (needsNewline ? "" : "\n") + data.str + "\n"
toAppend(needsNewline, str) ==
    (IF needsNewline THEN <<>> ELSE <<NL>>) \o str \o <<NL>>

\* a save that returns the records it wrote
saveReturns_written(data) == Some(data.recs)

\* what save returns after updatedRecs
saveReturns(data) == Some(unwrap(data.cached))

\* save(recordArray, dbfile, onErrors, maxFileSizeBytes) inside withLock
save(recordArray, c, f, maxFileSizeBytes, clk, t) ==
    LET got == load_(c, f, maxFileSizeBytes, t) IN
    IF ~got.ret.ok
    THEN [file |-> f, cache |-> got.cache, ret |-> Null,
          errs |-> Append(got.errs,
                     Err("", "failed to get existing records", NoRec)),
          input |-> recordArray]
    ELSE LET data == updatedRecs(got.ret.recs, recordArray, clk)
             cached == [has |-> TRUE, map |-> data.cached]
         IN IF Len(data.recs) = 0
            THEN [file |-> f, cache |-> cached, ret |-> saveReturns(data),
                  errs |-> Append(got.errs \o data.errs,
                             Err("", "nothing new to save", NoRec)),
                  input |-> data.input]
            ELSE LET nl == fileEndsWithNewline(f)
                 IN \* openAsync(dbfile, "a"), write, sync, close
                    [file |-> [exists |-> TRUE,
                               text |-> f.text \o toAppend(nl.ends, data.str)],
                     cache |-> cached, ret |-> saveReturns(data),
                     errs |-> got.errs \o data.errs \o saveStat(f) \o nl.errs,
                     input |-> data.input]

-----------------------------------------------------------------------------
(* Inputs *)

\* records as callers pass them: complete, without tm, without id.  Id
\* "1" comes with two contents, id "2" with one.
Contents == {<<"1", 1>>, <<"1", 2>>, <<"2", 1>>}

RecsIn ==
    {[id |-> c[1], tm |-> t, val |-> c[2]] : c \in Contents, t \in Tms}
        \cup {[id |-> c[1], val |-> c[2]] : c \in Contents}
        \cup {[val |-> 1]}

Batches == UNION {[1..n -> RecsIn] : n \in 0..MaxBatch}

\* the maxFileSizeBytes a caller passes
MaxSizes == {SmallMaxBytes, DefaultMaxBytes}

\* the clock readings during a batch of n records, from reading t on
Readings(t, n) ==
    {clk \in [1..n -> t..MaxClock] : \A i \in 1..(n - 1) : clk[i] <= clk[i + 1]}

Junk == [junk |-> TRUE]

\* files found at dbfile before the first call: none, an empty one, and
\* logs left by another writer (no final newline; a line that is not JSON
\* and versions out of timestamp order)
InitFiles ==
    { NoFile,
      [exists |-> TRUE, text |-> <<>>],
      [exists |-> TRUE,
       text |-> <<stringify([id |-> "1", tm |-> 2, val |-> 1]), NL,
                  stringify([id |-> "1", tm |-> 1, val |-> 2])>>],
      [exists |-> TRUE,
       text |-> <<Junk, NL, stringify([id |-> "1", tm |-> 1, val |-> 1]), NL>>] }

Max(S) == CHOOSE x \in S : \A y \in S : y <= x

\* the records of the valid lines of a file, in file order
RECURSIVE validRecs(_)
validRecs(ls) ==
    IF Len(ls) = 0 THEN <<>>
    ELSE IF jsonParses(ls[1]) /\ CondorRecSchema(ls[1][1].json)
         THEN <<ls[1][1].json>> \o validRecs(Tail(ls))
         ELSE validRecs(Tail(ls))

logRecs(f) == validRecs(lines(f.text))

\* the highest tm among the versions of id in a sequence of records, or 0
maxTmOf(recs, id) ==
    Max({0} \cup {recs[i].tm : i \in {j \in 1..Len(recs) : recs[j].id = id}})

\* the batch as the merge sees it: records with an id, timestamps assigned
stamped(b, clk) ==
    LET RECURSIVE go(_)
        go(i) == IF i > Len(b) THEN <<>>
                 ELSE IF HasId(b[i]) THEN <<recWithTm(b[i], clk[i])>> \o go(i + 1)
                 ELSE go(i + 1)
    IN go(1)

seenAfter(b, clk) ==
    [id \in Ids |-> Max({maxSeen[id], maxTmOf(stamped(b, clk), id)})]

Idle ==
    [op |-> "none", batch |-> <<>>, clk |-> <<>>, max |-> 0,
     ret |-> Null, errs |-> <<>>, file0 |-> NoFile, cache0 |-> NoEntry,
     again |-> FALSE, prevRet |-> Null, prevWrote |-> FALSE, arg |-> <<>>]

\* the call repeats the call before it: same operation, same arguments
Again(op, b, mx) == last.op = op /\ last.batch = b /\ last.max = mx

Call(op, b, clk, mx, r) ==
    [op |-> op, batch |-> b, clk |-> clk, max |-> mx,
     ret |-> r.ret, errs |-> r.errs, file0 |-> file, cache0 |-> cache,
     again |-> Again(op, b, mx),
     prevRet |-> IF Again(op, b, mx) THEN last.ret ELSE Null,
     prevWrote |-> Again(op, b, mx) /\ file # last.file0,
     arg |-> IF Has(r, "input") THEN r.input ELSE b]

-----------------------------------------------------------------------------
(* The state machine.  last holds one call from its return until the       *)
(* caller has taken the result (Return); the next call starts then, or     *)
(* starts at once when it repeats the call just made.                      *)

\* the variables of the step-by-step and of the many-path specifications
\* while they are not in use
StepsOff ==
    /\ disk = <<>> /\ lock = 0 /\ mem = <<>> /\ task = <<>> /\ hist = <<>>

PathsOff == CACHE = <<>> /\ fs = <<>> /\ cleared = <<>>

PureOff == args = <<>> /\ result = <<>>

Init ==
    /\ file \in InitFiles
    /\ cache = NoEntry
    /\ now = 1
    /\ last = Idle
    /\ maxSeen = [id \in Ids |-> maxTmOf(logRecs(file), id)]
    /\ fresh = Null
    /\ StepsOff /\ PathsOff /\ PureOff

Create ==
    /\ last = Idle
    /\ \E b \in Batches : \E clk \in Readings(now, Len(b)) :
        LET r == create(b, cache, file, clk) IN
        /\ size(r.file) <= MaxFileLen
        /\ file' = r.file
        /\ cache' = r.cache
        /\ now' = IF Len(b) = 0 THEN now ELSE clk[Len(b)]
        /\ last' = Call("create", b, clk, 0, r)
        /\ maxSeen' = IF r.ret.ok THEN seenAfter(b, clk) ELSE maxSeen
        /\ fresh' = IF r.ret.ok THEN r.ret ELSE fresh
        /\ UNCHANGED <<stepVars, pathVars, pureVars>>

Save ==
    /\ last = Idle \/ last.op = "save"
    /\ \E b \in IF last = Idle THEN Batches ELSE {last.batch} :
       \E mx \in IF last = Idle THEN MaxSizes ELSE {last.max} :
       \E clk \in Readings(now, Len(b)) :
        LET r == save(b, cache, file, mx, clk, now) IN
        /\ size(r.file) <= MaxFileLen
        /\ file' = r.file
        /\ cache' = r.cache
        /\ now' = IF Len(b) = 0 THEN now ELSE clk[Len(b)]
        /\ last' = Call("save", b, clk, mx, r)
        /\ maxSeen' = IF r.ret.ok THEN seenAfter(b, clk) ELSE maxSeen
        /\ fresh' = Null
        /\ UNCHANGED <<stepVars, pathVars, pureVars>>

Load ==
    /\ last = Idle
    /\ \E mx \in MaxSizes : \E t \in now..MaxClock :
        LET r == load(cache, file, mx, t) IN
        /\ file' = r.file
        /\ cache' = r.cache
        /\ now' = t
        /\ last' = Call("load", <<>>, <<>>, mx, r)
        /\ UNCHANGED <<maxSeen, fresh, stepVars, pathVars, pureVars>>

\* clearCache(): CACHE.clear()
ClearCache ==
    /\ last = Idle
    /\ cache' = NoEntry
    /\ last' = Call("clearCache", <<>>, <<>>, 0, [ret |-> Null, errs |-> <<>>])
    /\ UNCHANGED <<file, now, maxSeen, fresh, stepVars, pathVars, pureVars>>

\* the caller has taken the result of the call
Return ==
    /\ last # Idle
    /\ last' = Idle
    /\ UNCHANGED <<file, cache, now, maxSeen, fresh, stepVars, pathVars, pureVars>>

Next == Create \/ Save \/ Load \/ ClearCache \/ Return

Spec == Init /\ [][Next]_vars

-----------------------------------------------------------------------------
(* What the claims are stated with.  These definitions say what the state  *)
(* of a log is without following the code: for every id the version kept   *)
(* is the last one among those with the highest tm, and the ids stand in   *)
(* the order of their first version.                                       *)

versionsAt(recs, id) == {i \in 1..Len(recs) : recs[i].id = id}

winner(recs, id) ==
    recs[Max({i \in versionsAt(recs, id) : recs[i].tm = maxTmOf(recs, id)})]

firstAt(recs) ==
    {i \in 1..Len(recs) : \A j \in 1..(i - 1) : recs[j].id # recs[i].id}

RECURSIVE replayFrom(_, _)
replayFrom(recs, i) ==
    IF i > Len(recs) THEN <<>>
    ELSE IF i \in firstAt(recs)
         THEN <<winner(recs, recs[i].id)>> \o replayFrom(recs, i + 1)
         ELSE replayFrom(recs, i + 1)

replayState(recs) == replayFrom(recs, 1)

\* the record of id in a list of records that has one
recOf(recs, id) == recs[CHOOSE i \in 1..Len(recs) : recs[i].id = id]

countOf(recs, id) == Cardinality(versionsAt(recs, id))

LoadedFromDisk == last.op = "load" /\ ~last.cache0.has /\ last.ret.ok

\* C1: Latest-wins.  After clearCache and load, every id that create/save
\* calls (or an earlier writer of the log) gave versions of comes back once,
\* with the highest tm among those versions, as a version of the log.
C1_LatestWins ==
    LoadedFromDisk =>
        \A id \in Ids :
            maxSeen[id] > 0 =>
                /\ countOf(last.ret.recs, id) = 1
                /\ recOf(last.ret.recs, id).tm = maxSeen[id]
                /\ \E i \in versionsAt(logRecs(file), id) :
                       logRecs(file)[i] = recOf(last.ret.recs, id)

\* the log holds an older and a newer version of id "2", written by the
\* engine in that order, and a load from disk has returned
C1_Witness ==
    /\ LoadedFromDisk
    /\ last.file0 # NoFile
    /\ \E i, j \in versionsAt(logRecs(file), "2") :
           i < j /\ logRecs(file)[i].tm < logRecs(file)[j].tm
    /\ maxSeen["2"] = MaxTm

\* the state the merge of the latest create/save started from
preState ==
    IF last.op = "create" THEN <<>>
    ELSE IF last.cache0.has THEN last.cache0.map
    ELSE replayState(logRecs(last.file0))

\* the latest call is a create or save that got as far as the merge
Merged ==
    \/ last.op = "create" /\ ~last.file0.exists
    \/ last.op = "save" /\ last.ret.ok

\* the versions the merge of the latest call went through, in order
processed == preState \o stamped(last.batch, last.clk)

\* what the latest call appended to the file
appended == SubSeq(file.text, Len(last.file0.text) + 1, Len(file.text))

\* the records of the JSON texts in a text, in order
RECURSIVE jsonRecs(_)
jsonRecs(text) ==
    IF Len(text) = 0 THEN <<>>
    ELSE IF Has(text[1], "json") THEN <<text[1].json>> \o jsonRecs(Tail(text))
    ELSE jsonRecs(Tail(text))

\* some id has two versions of different content at its highest tm
TieAt(recs, id) ==
    \E i, j \in versionsAt(recs, id) :
        /\ recs[i].tm = maxTmOf(recs, id) /\ recs[j].tm = maxTmOf(recs, id)
        /\ recs[i] # recs[j]

\* C2: Tie-break-by-content.  Among versions of an id with the same tm the
\* later-processed one replaces the current one when the content differs,
\* in save and create (the state after the merge) and in load (the lines of
\* the log); a submitted record equal to the current version in tm and
\* content is not written.
C2_TieBreak ==
    /\ Merged =>
          \A id \in Ids :
              TieAt(processed, id) =>
                  /\ cache.has
                  /\ countOf(cache.map, id) = 1
                  /\ recOf(cache.map, id) = winner(processed, id)
    /\ LoadedFromDisk =>
          \A id \in Ids :
              TieAt(logRecs(file), id) =>
                  recOf(last.ret.recs, id) = winner(logRecs(file), id)
    /\ (Merged /\ Len(stamped(last.batch, last.clk)) = 1) =>
          LET r == stamped(last.batch, last.clk)[1] IN
          (countOf(preState, r.id) = 1 /\ recOf(preState, r.id).tm = r.tm) =>
              IF recOf(preState, r.id) = r
              THEN file = last.file0
              ELSE /\ jsonRecs(appended) = <<r>>
                   /\ recOf(cache.map, r.id) = r

\* a save of one record that ties with the current version of its id and
\* differs from it in content has replaced that version
C2_Witness ==
    /\ last.op = "save" /\ last.ret.ok
    /\ Len(last.batch) = 1 /\ HasId(last.batch[1]) /\ HasTm(last.batch[1])
    /\ countOf(preState, last.batch[1].id) = 1
    /\ recOf(preState, last.batch[1].id).tm = last.batch[1].tm
    /\ recOf(preState, last.batch[1].id) # last.batch[1]
    /\ recOf(cache.map, last.batch[1].id) = last.batch[1]

\* every record of the batch that has an id carries its own tm
ExplicitTm(b) == \A i \in 1..Len(b) : HasId(b[i]) => HasTm(b[i])

\* no two records of the batch have the same id and tm and differ in content
NoTie(b) ==
    \A i, j \in 1..Len(b) :
        (HasId(b[i]) /\ HasId(b[j]) /\ HasTm(b[i]) /\ HasTm(b[j])
            /\ b[i].id = b[j].id /\ b[i].tm = b[j].tm) => b[i] = b[j]

RepeatedSave == last.op = "save" /\ last.again

\* C3 as claimed: Idempotence.  The second of two successive save calls
\* with the same batch appends nothing and returns what the first returned.
C3_Idempotence_AsClaimed ==
    RepeatedSave => (file = last.file0 /\ last.ret = last.prevRet)

\* C3 as amended: Idempotence holds for batches in which every record with
\* an id carries its own tm and no id occurs twice with the same tm and
\* different content.
C3_Idempotence ==
    (RepeatedSave /\ ExplicitTm(last.batch) /\ NoTie(last.batch)) =>
        (file = last.file0 /\ last.ret = last.prevRet)

\* the first save appended to the log, the second, with the same batch of
\* two records, has returned a list
C3_Witness ==
    /\ RepeatedSave /\ last.prevWrote /\ last.ret.ok
    /\ Len(last.batch) = 2
    /\ ExplicitTm(last.batch) /\ NoTie(last.batch)
    /\ HasId(last.batch[1]) /\ HasId(last.batch[2])

\* C4: Cache transparency.  Whenever the path has a cache entry the file
\* exists and the entry is the state the log replays to, so a call answers
\* from the cache what it would answer from the file.
C4_CacheTransparency ==
    cache.has => (file.exists /\ cache.map = replayState(logRecs(file)))

SaveReturned == last.op = "save" /\ last.ret.ok

\* C5: a successful save returns the full current state: one record per id
\* accepted so far, the winning version of each, ids in the order of their
\* first acceptance; this is also the state the log replays to.
C5_SaveReturnsState ==
    SaveReturned =>
        /\ last.ret.recs = replayState(processed)
        /\ last.ret.recs = replayState(logRecs(file))
        /\ \A id \in Ids :
               maxSeen[id] > 0 =>
                   /\ countOf(last.ret.recs, id) = 1
                   /\ recOf(last.ret.recs, id).tm = maxSeen[id]

\* a save of two records, one rejected as older than the current version
\* and one of a new id, has written one record and returned two
C5_Witness ==
    /\ SaveReturned
    /\ Len(last.batch) = 2
    /\ HasId(last.batch[1]) /\ HasId(last.batch[2])
    /\ Len(preState) = 1
    /\ Len(jsonRecs(appended)) = 1
    /\ Len(last.ret.recs) = 2
    /\ last.ret.recs[1] = preState[1]
    /\ last.batch[1].id = preState[1].id

\* the batch with the default timestamps assigned
defaulted(b, clk) ==
    [i \in 1..Len(b) |-> IF Has(b[i], "tm") THEN b[i] ELSE WithTm(b[i], clk[i])]

CreateReturned == last.op = "create" /\ last.ret.ok

\* a load while the latest successful create is the latest write
LoadAfterCreate == last.op = "load" /\ fresh.ok

\* every record has an id and no two records have the same id
DistinctIds(b) ==
    /\ \A i \in 1..Len(b) : HasId(b[i])
    /\ \A i, j \in 1..Len(b) : b[i].id = b[j].id => i = j

\* C6 as claimed: Round-trip.  For every batch a successful create returns
\* the batch with default timestamps assigned, and a load afterwards, with
\* or without clearCache in between, returns that same list.
C6_RoundTrip_AsClaimed ==
    /\ CreateReturned => last.ret.recs = defaulted(last.batch, last.clk)
    /\ LoadAfterCreate => last.ret = fresh

\* C6 as amended: Round-trip for batches whose records all have an id, no
\* two of them the same id: create returns the batch with default
\* timestamps assigned, and a load afterwards that answers from the cache,
\* or reads a file not larger than its size ceiling, returns that list.
C6_RoundTrip ==
    /\ (CreateReturned /\ DistinctIds(last.batch)) =>
           /\ last.ret.recs = defaulted(last.batch, last.clk)
           /\ fresh = last.ret
    /\ (LoadAfterCreate /\ DistinctIds(fresh.recs)
          /\ (last.cache0.has \/ size(last.file0) <= last.max)) =>
           last.ret = fresh

\* create wrote two records, the cache was cleared, and a load has read
\* them back from the file
C6_Witness ==
    /\ LoadAfterCreate /\ ~last.cache0.has /\ last.ret.ok
    /\ Len(fresh.recs) = 2 /\ DistinctIds(fresh.recs)

\* C7: Create-exists.  create on a path where a file exists returns null,
\* reports EEXIST, and changes neither the file nor the cache entry.
C7_CreateExists ==
    (last.op = "create" /\ last.file0.exists) =>
        /\ ~last.ret.ok
        /\ \E i \in 1..Len(last.errs) : last.errs[i].code = "EEXIST"
        /\ file = last.file0
        /\ cache = last.cache0

\* create of a batch with a valid record on a path whose file exists and
\* whose state is cached has returned
C7_Witness ==
    /\ last.op = "create" /\ last.file0.exists /\ last.cache0.has
    /\ size(last.file0) > 0
    /\ \E i \in 1..Len(last.batch) : HasId(last.batch[i])

Wrote == last.op \in {"create", "save"}

\* the positions of the batch whose record has no id
noId(b) == {i \in 1..Len(b) : ~HasId(b[i])}

\* the reports of the latest call that carry an id-less record of the batch
missingIdReports ==
    {k \in 1..Len(last.errs) :
        \E i \in noId(last.batch) : last.errs[k].record = last.batch[i]}

\* no record without id is in the returned list, the cache or the log
NoIdlessAnywhere ==
    /\ \A i \in 1..Len(last.ret.recs) : HasId(last.ret.recs[i])
    /\ \A i \in 1..Len(cache.map) : HasId(cache.map[i])
    /\ \A i \in 1..Len(jsonRecs(file.text)) : HasId(jsonRecs(file.text)[i])

\* one report per id-less record of the batch
OneReportEach == Cardinality(missingIdReports) = Cardinality(noId(last.batch))

supersedes(recs, i) ==
    LET before == SubSeq(recs, 1, i - 1) IN
    \/ countOf(before, recs[i].id) = 0
    \/ maxTmOf(before, recs[i].id) < recs[i].tm
    \/ /\ maxTmOf(before, recs[i].id) = recs[i].tm
       /\ winner(before, recs[i].id) # recs[i]

\* the versions of the batch that superseded when they were processed
RECURSIVE supersedingFrom(_, _)
supersedingFrom(recs, i) ==
    IF i > Len(recs) THEN <<>>
    ELSE IF supersedes(recs, i)
         THEN <<recs[i]>> \o supersedingFrom(recs, i + 1)
         ELSE supersedingFrom(recs, i + 1)

\* the batch holds the same id twice, the second version newer than the
\* first or of equal tm and different content
TwoVersions ==
    LET b == stamped(last.batch, last.clk) IN
    /\ Len(b) = 2
    /\ b[1].id = b[2].id
    /\ (b[1].tm < b[2].tm \/ (b[1].tm = b[2].tm /\ b[1] # b[2]))

\* C9 as claimed: Within-batch overwrite.  Of two versions of an id in one
\* batch only the final one is in the resulting state and only the final
\* one is written to the log.
C9_WithinBatch_AsClaimed ==
    (Merged /\ TwoVersions) =>
        LET b == stamped(last.batch, last.clk) IN
        /\ countOf(cache.map, b[2].id) = 1
        /\ recOf(cache.map, b[2].id) = b[2]
        /\ jsonRecs(appended) = <<b[2]>>

\* C9 as amended: of two versions of an id in one batch the first is never
\* in the resulting state; the state holds the final one when it supersedes
\* the version the state had; the log receives, in batch order, every
\* version that superseded when it was processed, the first one included.
C9_WithinBatch ==
    /\ Merged =>
          jsonRecs(appended) = supersedingFrom(processed, Len(preState) + 1)
    /\ (Merged /\ TwoVersions) =>
          LET b == stamped(last.batch, last.clk) IN
          /\ countOf(cache.map, b[2].id) = 1
          /\ recOf(cache.map, b[2].id) = winner(processed, b[2].id)
          /\ recOf(cache.map, b[2].id) # b[1]
          /\ supersedes(processed, Len(preState) + 2) =>
                 recOf(cache.map, b[2].id) = b[2]
          /\ countOf(preState, b[2].id) = 0 => jsonRecs(appended) = b

\* a save of two versions of an id the state did not have, equal in tm
\* and different in content, has written both and kept the second
C9_Witness ==
    /\ SaveReturned /\ TwoVersions
    /\ Len(preState) = 1
    /\ countOf(preState, stamped(last.batch, last.clk)[2].id) = 0
    /\ stamped(last.batch, last.clk)[1].tm = stamped(last.batch, last.clk)[2].tm
    /\ Len(jsonRecs(appended)) = 2
    /\ cache.map[2] = last.batch[2]

Reads == last.op \in {"load", "save"}

TooLargeReported ==
    /\ ~last.ret.ok
    /\ \E i \in 1..Len(last.errs) : last.errs[i].code = "FILE_TOO_LARGE"

\* C10 as claimed: Size ceiling.  Whenever the file is larger than
\* maxSizeBytes, load and save return null with FILE_TOO_LARGE and leave no
\* cache entry; a file of exactly maxSizeBytes is accepted.
C10_SizeCeiling_AsClaimed ==
    /\ (Reads /\ last.file0.exists /\ size(last.file0) > last.max) =>
           TooLargeReported /\ ~cache.has
    /\ (Reads /\ last.file0.exists /\ size(last.file0) = last.max) =>
           last.ret.ok

\* C10 as amended: the ceiling applies to calls that find no cache entry
\* for the path; a call that finds one answers from it whatever the size
\* of the file.
C10_SizeCeiling ==
    /\ (Reads /\ last.file0.exists /\ size(last.file0) > last.max) =>
           IF last.cache0.has
           THEN last.ret.ok
           ELSE TooLargeReported /\ ~cache.has /\ file = last.file0
    /\ (Reads /\ last.file0.exists /\ size(last.file0) = last.max) =>
           last.ret.ok

\* a save on a path without cache entry whose file, written by the engine,
\* is larger than the ceiling passed has returned
C10_Witness ==
    /\ last.op = "save" /\ ~last.cache0.has
    /\ last.file0.exists /\ size(last.file0) > last.max
    /\ maxSeen["2"] > 0
    /\ Len(last.batch) > 0 /\ HasId(last.batch[1])

\* C20: whenever no file exists at the path, load returns null and
\* reports an error, whatever calls came before.
C20_LoadAbsent ==
    (last.op = "load" /\ ~last.file0.exists) =>
        (~last.ret.ok /\ Len(last.errs) > 0)

-----------------------------------------------------------------------------
(* One process, several paths.  CACHE is the whole map path -> entry; the   *)
(* calls are those of Spec, each on the path it is given.                   *)

Paths == {"a.json", "b.json"}

\* clearCache called without argument
NoArg == "undefined"

\* the batches used on the paths
PathBatches ==
    { <<[id |-> "1", tm |-> 1, val |-> 1]>>,
      <<[id |-> "2", tm |-> 2, val |-> 1]>> }

\* clearCache(): CACHE.clear(); the function declares no parameter, an
\* argument passed to it is not looked at
clearCache(C, arg) == [q \in DOMAIN C |-> NoEntry]

NotCleared == [arg |-> "none", before |-> <<>>]

InitPaths ==
    /\ CACHE = [q \in Paths |-> NoEntry]
    /\ fs = [q \in Paths |-> NoFile]
    /\ cleared = NotCleared
    /\ file = NoFile /\ cache = NoEntry /\ now = 1 /\ last = Idle
    /\ maxSeen = [id \in Ids |-> 0] /\ fresh = Null
    /\ StepsOff /\ PureOff

PathCreate ==
    \E q \in Paths : \E b \in PathBatches :
        LET r == create(b, CACHE[q], fs[q], [i \in 1..Len(b) |-> now]) IN
        /\ CACHE' = [CACHE EXCEPT ![q] = r.cache]
        /\ fs' = [fs EXCEPT ![q] = r.file]
        /\ cleared' = NotCleared
        /\ UNCHANGED <<callVars, stepVars, pureVars>>

PathSave ==
    \E q \in Paths : \E b \in PathBatches :
        LET r == save(b, CACHE[q], fs[q], DefaultMaxBytes,
                      [i \in 1..Len(b) |-> now], now) IN
        /\ size(r.file) <= MaxFileLen
        /\ CACHE' = [CACHE EXCEPT ![q] = r.cache]
        /\ fs' = [fs EXCEPT ![q] = r.file]
        /\ cleared' = NotCleared
        /\ UNCHANGED <<callVars, stepVars, pureVars>>

PathLoad ==
    \E q \in Paths :
        LET r == load(CACHE[q], fs[q], DefaultMaxBytes, now) IN
        /\ CACHE' = [CACHE EXCEPT ![q] = r.cache]
        /\ cleared' = NotCleared
        /\ UNCHANGED <<fs, callVars, stepVars, pureVars>>

PathClearCache ==
    \E arg \in Paths \cup {NoArg} :
        /\ CACHE' = clearCache(CACHE, arg)
        /\ cleared' = [arg |-> arg, before |-> CACHE]
        /\ UNCHANGED <<fs, callVars, stepVars, pureVars>>

NextPaths == PathCreate \/ PathSave \/ PathLoad \/ PathClearCache

SpecPaths == InitPaths /\ [][NextPaths]_vars

\* C19: clearCache(path) removes the cache entry of that path only and
\* leaves the entries of all other paths as they were; clearCache() removes
\* every entry.
C19_ClearOnePath ==
    /\ cleared.arg \in Paths =>
           /\ CACHE[cleared.arg] = NoEntry
           /\ \A q \in Paths \ {cleared.arg} : CACHE[q] = cleared.before[q]
    /\ cleared.arg = NoArg => \A q \in Paths : CACHE[q] = NoEntry

-----------------------------------------------------------------------------
(* The calls step by step.  Every await of create, save and load_ is one    *)
(* step, and the synchronous code after an await belongs to the step that   *)
(* resumes it.  Each caller is a process of its own with its own CACHE; the *)
(* callers share the volume.  The volume holds dbfile, dbfile.tmp and,      *)
(* when the environment provides it, the file dbfile.lock that              *)
(* proper-lockfile is asked to lock.  A file has its text as readers see    *)
(* it and the length of the prefix that is on stable storage; an open file  *)
(* handle follows its file through rename and unlink.                       *)

MaxCalls == 2       \* calls a caller makes in one run
MaxFaults == 1      \* file system and lock calls that fail in one run
MaxCrashes == 1     \* crashes in one run

Callers == {1, 2}

RecA == [id |-> "1", tm |-> 1, val |-> 1]
RecB == [id |-> "1", tm |-> 1, val |-> 2]
RecC == [id |-> "2", tm |-> 2, val |-> 1]

\* the record arrays the callers pass
StepBatches == {<<RecA>>, <<RecB>>, <<RecA, RecC>>, <<[val |-> 1]>>}

Pending == [pending |-> TRUE]

\* the call ended with an exception: the promise is rejected
Threw == [threw |-> TRUE]

NoData ==
    [recs |-> <<>>, str |-> <<>>, cached |-> <<>>, errs |-> <<>>,
     input |-> <<>>]

NoTask ==
    [op |-> "none", pc |-> "idle", batch |-> <<>>, max |-> 0,
     locked |-> FALSE, held |-> FALSE, lockErr |-> "", data |-> NoData,
     nl |-> TRUE, fd |-> "none", caught |-> "", ret |-> Pending, errs |-> <<>>,
     wrote |-> <<>>, calls |-> 0, resolved |-> 0]

NoTmp == [exists |-> FALSE, text |-> <<>>]

\* a file of the volume: text, and how much of it is on stable storage
OnDisk(f, n) == [exists |-> f.exists, text |-> f.text, synced |-> n]

\* the file as stat and the readers see it
seen(d) == [exists |-> d.exists, text |-> d.text]

\* the clock readings of a batch at the fixed time of the step model
clkOf(b) == [i \in 1..Len(b) |-> now]

\* an operation of the file system or of the lock may fail now
mayFail == hist.faulty /\ hist.faults < MaxFaults

Outcomes == IF mayFail THEN {"ok", "EIO"} ELSE {"ok"}

counted(e) == [hist EXCEPT !.faults = IF e = "EIO" THEN @ + 1 ELSE @]

\* an error of the file system as enhanceError reports it
ioError(code, operation) == Err(code, operation, [operation |-> operation])

\* the fields of caller t's call replaced by those of upd
Upd(t, upd) == [task EXCEPT ![t] = upd @@ @]

\* a withLock that returns what its body returned without releasing
finish_noRelease(t, r, es) ==
    Upd(t, [ret |-> r, errs |-> task[t].errs \o es, fd |-> "none",
            pc |-> "done"])

\* return ret from the body of the call: release is next when the lock is
\* held, otherwise the call has returned
finish(t, r, es) ==
    Upd(t, [ret |-> r, errs |-> task[t].errs \o es, fd |-> "none",
            pc |-> IF task[t].locked THEN "release" ELSE "done"])

\* where the handles of the other callers point after rename(tmp, db)
afterRename(tk, t) ==
    [u \in DOMAIN tk |->
        IF u = t THEN tk[u]
        ELSE [tk[u] EXCEPT !.fd = IF @ = "db" THEN "orphan"
                                  ELSE IF @ = "tmp" THEN "db" ELSE @]]

\* where the handles of the other callers point after unlink(tmp)
afterUnlink(tk, t) ==
    [u \in DOMAIN tk |->
        IF u = t THEN tk[u]
        ELSE [tk[u] EXCEPT !.fd = IF @ = "tmp" THEN "orphan" ELSE @]]

\* a write of new at position 0 of a file that holds old
overwrite(old, new) ==
    IF Len(new) >= Len(old) THEN new
    ELSE new \o SubSeq(old, Len(new) + 1, Len(old))

\* the file system after a write through handle fd
written(d, fd, new) ==
    IF fd = "tmp" THEN [d EXCEPT !.tmp.text = overwrite(@, new)]
    ELSE IF fd = "db"
         THEN [d EXCEPT !.db.text = overwrite(@, new), !.db.synced = 0]
    ELSE d

\* the caller makes a call
Start(t) ==
    /\ task[t].pc = "idle"
    /\ task[t].calls < MaxCalls
    /\ \E op \in {"create", "save", "load"} :
       \E b \in IF op = "load" THEN {<<>>} ELSE StepBatches :
       \E mx \in IF op = "create" THEN {0} ELSE MaxSizes :
          task' = Upd(t, [op |-> op, batch |-> b, max |-> mx,
                          pc |-> IF op = "load" THEN "load" ELSE "lock",
                          locked |-> FALSE, held |-> FALSE, lockErr |-> "",
                          data |-> NoData,
                          nl |-> TRUE, fd |-> "none", caught |-> "",
                          ret |-> Pending, errs |-> <<>>, wrote |-> <<>>,
                          calls |-> task[t].calls + 1, resolved |-> 0])
    /\ UNCHANGED <<disk, lock, mem, hist, callVars, pathVars, pureVars>>

\* a lock that is granted whoever holds it
lockFree_always(holder) == TRUE

\* lock(lockfile, ...) finds the lock free
lockFree(holder) == holder = 0

\* a withLock that proceeds without the lock on every error
tolerated_any(code) == TRUE

\* withLock: lockErr.code === "ENOENT" is passed over silently, every
\* other error is thrown again
tolerated(code) == code = "ENOENT"

\* a lock() that retries for as long as the lock is held
lockAnswers_waits ==
    IF ~disk.lockFile THEN {"ENOENT"}
    ELSE IF lock = 0 THEN {""} ELSE {}

\* what lock(lockfile, ...) can answer: "" when it grants the lock.  The
\* file to lock must exist; a lock held by another caller is an error once
\* the retries are used up (before that the caller waits)
lockAnswers ==
    IF ~disk.lockFile THEN {"ENOENT"}
    ELSE (IF lockFree(lock) THEN {""} ELSE {"ELOCKED"})
            \cup (IF mayFail THEN {"EIO"} ELSE {})

bodyStart(op) == IF op = "create" THEN "stat" ELSE "load"

\* withLock up to the call of fn
Acquire(t) ==
    /\ task[t].pc = "lock"
    /\ \E e \in lockAnswers :
        /\ hist' = counted(e)
        /\ IF e = ""
           THEN /\ lock' = t
                /\ task' = Upd(t, [locked |-> TRUE, held |-> TRUE,
                                    pc |-> bodyStart(task[t].op)])
           ELSE /\ lock' = lock
                /\ IF tolerated(e)
                   THEN task' = Upd(t, [lockErr |-> e, pc |-> bodyStart(task[t].op)])
                   ELSE task' = Upd(t, [lockErr |-> e, ret |-> Threw, pc |-> "done"])
    /\ UNCHANGED <<disk, mem, callVars, pathVars, pureVars>>

\* create: await stat(dbfile), then up to await writeFile
CreateStat(t) ==
    /\ task[t].pc = "stat"
    /\ \E e \in Outcomes :
        /\ hist' = counted(e)
        /\ IF e # "ok"
           THEN /\ task' = finish(t, Null, <<ioError(e, "create/stat")>>)
                /\ mem' = mem
           ELSE IF statFinds(seen(disk.db))
           THEN /\ task' = finish(t, Null,
                              <<Err("EEXIST", "already exists - cannot create!", NoRec)>>)
                /\ mem' = mem
           ELSE LET data == updatedRecs(<<>>, task[t].batch, clkOf(task[t].batch)) IN
                /\ mem' = [mem EXCEPT ![t] = [has |-> TRUE, map |-> data.cached]]
                /\ IF Len(data.recs) = 0
                   THEN task' = finish(t, Null,
                                  Append(data.errs,
                                    Err("", "failed to find any valid records", NoRec)))
                   ELSE task' = Upd(t, [data |-> data, pc |-> "writeFile",
                                        errs |-> task[t].errs \o data.errs])
    /\ UNCHANGED <<disk, lock, callVars, pathVars, pureVars>>

\* writeFile(tempFile, ...): the file is opened, created or truncated
WriteFileOpen(t) ==
    /\ task[t].pc = "writeFile"
    /\ \E e \in Outcomes :
        /\ hist' = counted(e)
        /\ IF e # "ok"
           THEN /\ task' = Upd(t, [pc |-> "unlink", caught |-> e])
                /\ disk' = disk
           ELSE /\ task' = Upd(t, [pc |-> "write", fd |-> "tmp"])
                /\ disk' = [disk EXCEPT !.tmp = [exists |-> TRUE, text |-> <<>>]]
    /\ UNCHANGED <<lock, mem, callVars, pathVars, pureVars>>

\* writeFile(tempFile, data.str + "\n"): the text is written and the file
\* closed
WriteFileWrite(t) ==
    /\ task[t].pc = "write"
    /\ \E e \in Outcomes :
        /\ hist' = counted(e)
        /\ IF e # "ok"
           THEN /\ task' = Upd(t, [pc |-> "unlink", fd |-> "none", caught |-> e])
                /\ disk' = disk
           ELSE /\ task' = Upd(t, [pc |-> "rename", fd |-> "none"])
                /\ disk' = written(disk, task[t].fd, task[t].data.str \o <<NL>>)
    /\ UNCHANGED <<lock, mem, callVars, pathVars, pureVars>>

\* rename(tempFile, dbfile): replaces dbfile when it exists; then
\* return data.recs
Rename(t) ==
    /\ task[t].pc = "rename"
    /\ \E e \in Outcomes :
        /\ hist' = counted(e)
        /\ IF e # "ok" \/ ~disk.tmp.exists
           THEN /\ task' = Upd(t, [pc |-> "unlink",
                                    caught |-> IF e # "ok" THEN e ELSE "ENOENT"])
                /\ disk' = disk
           ELSE /\ task' = afterRename(finish(t, createReturns(task[t].data), <<>>), t)
                /\ disk' = [disk EXCEPT !.db = OnDisk(disk.tmp, 0), !.tmp = NoTmp]
    /\ UNCHANGED <<lock, mem, callVars, pathVars, pureVars>>

\* the catch of create: unlink(tempFile), its failure ignored, then the
\* report and return null
Unlink(t) ==
    /\ task[t].pc = "unlink"
    /\ \E e \in Outcomes :
        LET tk == finish(t, Null, <<ioError(task[t].caught, "create")>>) IN
        /\ hist' = counted(e)
        /\ task' = IF e = "ok" THEN afterUnlink(tk, t) ELSE tk
        /\ disk' = IF e = "ok" THEN [disk EXCEPT !.tmp = NoTmp] ELSE disk
    /\ UNCHANGED <<lock, mem, callVars, pathVars, pureVars>>

\* save after load_ resolved with cur: updatedRecs, then "nothing new" or
\* on to the append
merged(t, cur, es) ==
    LET data == updatedRecs(cur, task[t].batch, clkOf(task[t].batch)) IN
    IF Len(data.recs) = 0
    THEN finish(t, saveReturns(data),
                Append(es \o data.errs, Err("", "nothing new to save", NoRec)))
    ELSE Upd(t, [data |-> data, pc |-> "stat2",
                 errs |-> task[t].errs \o es \o data.errs])

\* the cache entry after that merge
mergedEntry(t, cur) ==
    [has |-> TRUE,
     map |-> updatedRecs(cur, task[t].batch, clkOf(task[t].batch)).cached]

\* a load_ that resolves with null and reports nothing
failed_silent(t, report) == finish(t, Null, <<>>)

\* load_ resolved with null after report: load returns null, save reports
\* once more and returns null
failed(t, report) ==
    IF task[t].op = "load" THEN finish(t, Null, <<report>>)
    ELSE finish(t, Null,
                <<report, Err("", "failed to get existing records", NoRec)>>)

\* a close handler that caches what was read before the stream failed
closeInstalls_always(error) == TRUE

\* rl.on("close"): if (ctx.error) return; ...; CACHE.set(dbfile, ctx.recs)
closeInstalls(error) == ~error

\* a close handler that resolves whatever happened before
closeResolves_always(error) == 1

\* rl.on("close"): if (ctx.error) return; ...; resolve(ctx.recs): how many
\* times it resolves the promise of load_
closeResolves(error) == IF error THEN 0 ELSE 1

\* how many times the handlers of the stream resolve the promise of
\* load_: rl.on("error") resolves with null and sets ctx.error, and the
\* close that follows finds ctx.error
streamResolves(e) ==
    IF e # "ok" THEN 1 + closeResolves(TRUE) ELSE closeResolves(FALSE)

\* the promise of caller t's load_ resolved n more times
resolving(tk, t, n) == [tk EXCEPT ![t].resolved = @ + n]

\* load_ up to the read: the cache hit, or await stat(dbfile) and the
\* size ceiling
LoadStat(t) ==
    /\ task[t].pc = "load"
    /\ \E e \in IF cacheHit(mem[t]) THEN {"ok"} ELSE Outcomes :
        /\ hist' = counted(e)
        /\ IF cacheHit(mem[t])
           THEN IF task[t].op = "load"
                THEN /\ task' = resolving(
                                  finish(t, Some(unwrap(mem[t].map)), <<>>), t, 1)
                     /\ mem' = mem
                ELSE /\ task' = resolving(merged(t, mem[t].map, <<>>), t, 1)
                     /\ mem' = [mem EXCEPT ![t] = mergedEntry(t, mem[t].map)]
           ELSE /\ mem' = mem
                /\ IF e # "ok"
                   THEN task' = resolving(failed(t, ioError(e, "load/stat")), t, 1)
                   ELSE IF ~disk.db.exists
                   THEN task' = resolving(failed(t, enhanceError("load/stat")), t, 1)
                   ELSE IF tooLarge(seen(disk.db), task[t].max)
                   THEN task' = resolving(
                                  failed(t, Err("FILE_TOO_LARGE", "is too large", NoRec)),
                                  t, 1)
                   ELSE task' = Upd(t, [pc |-> "read"])
    /\ UNCHANGED <<disk, lock, callVars, pathVars, pureVars>>

\* load_: the stream is read to its end, or fails after k of its lines;
\* CACHE.set, resolve; save goes on with updatedRecs at once
Read(t) ==
    /\ task[t].pc = "read"
    /\ \E e \in Outcomes :
       LET ls == lines(disk.db.text) IN
       \E k \in IF e = "ok" THEN {Len(ls)} ELSE 0..Len(ls) :
        LET ctx == forEachLine([recs |-> <<>>, errs |-> <<>>],
                               SubSeq(ls, 1, k), now, 1)
            set == [mem EXCEPT ![t] = [has |-> TRUE, map |-> ctx.recs]]
        IN
        /\ hist' = counted(e)
        /\ IF e # "ok"
           THEN /\ task' = resolving(failed(t, ioError(e, "load/read")),
                                     t, streamResolves(e))
                /\ mem' = IF closeInstalls(TRUE) THEN set ELSE mem
           ELSE IF task[t].op = "load"
                THEN /\ task' = resolving(
                                  finish(t, Some(unwrap(ctx.recs)), ctx.errs),
                                  t, streamResolves(e))
                     /\ mem' = IF closeInstalls(FALSE) THEN set ELSE mem
                ELSE /\ task' = resolving(merged(t, ctx.recs, ctx.errs),
                                          t, streamResolves(e))
                     /\ mem' = [mem EXCEPT ![t] = mergedEntry(t, ctx.recs)]
    /\ UNCHANGED <<disk, lock, callVars, pathVars, pureVars>>

\* save: await stat(dbfile) for the size warning; a failure is reported
\* and the save goes on
SaveStat(t) ==
    /\ task[t].pc = "stat2"
    /\ \E e \in Outcomes :
        /\ hist' = counted(e)
        /\ task' = Upd(t, [pc |-> "probe",
                           errs |-> task[t].errs \o
                                    (IF e # "ok" THEN <<ioError(e, "save/stat")>>
                                     ELSE saveStat(seen(disk.db)))])
    /\ UNCHANGED <<disk, lock, mem, callVars, pathVars, pureVars>>

\* save: await fileEndsWithNewline(dbfile, onErrors)
Probe(t) ==
    /\ task[t].pc = "probe"
    /\ \E e \in Outcomes :
        LET nl == IF e # "ok"
                  THEN [ends |-> TRUE,
                        errs |-> <<Err("", "Failed checking fileEndsWithNewline", NoRec)>>]
                  ELSE fileEndsWithNewline(seen(disk.db)) IN
        /\ hist' = counted(e)
        /\ task' = Upd(t, [pc |-> "open", nl |-> nl.ends,
                           errs |-> task[t].errs \o nl.errs])
    /\ UNCHANGED <<disk, lock, mem, callVars, pathVars, pureVars>>

\* save: await openAsync(dbfile, "a"); the file is created when absent
AppendOpen(t) ==
    /\ task[t].pc = "open"
    /\ \E e \in Outcomes :
        /\ hist' = [counted(e) EXCEPT !.saved = @ \/ e = "ok"]
        /\ IF e # "ok"
           THEN /\ task' = finish(t, Null, <<ioError(e, "save/write")>>)
                /\ disk' = disk
           ELSE /\ task' = Upd(t, [pc |-> "append", fd |-> "db"])
                /\ disk' = [disk EXCEPT !.db.exists = TRUE]
    /\ UNCHANGED <<lock, mem, callVars, pathVars, pureVars>>

\* the file system after an append through handle fd
appendedTo(d, fd, new) ==
    IF fd = "db" THEN [d EXCEPT !.db.text = @ \o new] ELSE d

\* save: await fh.write(toAppend, null, "utf8")
AppendWrite(t) ==
    /\ task[t].pc = "append"
    /\ \E e \in Outcomes :
        /\ hist' = counted(e)
        /\ IF e # "ok"
           THEN /\ task' = finish(t, Null, <<ioError(e, "save/write")>>)
                /\ disk' = disk
           ELSE LET new == toAppend(task[t].nl, task[t].data.str) IN
                /\ task' = Upd(t, [pc |-> "sync", wrote |-> new])
                /\ disk' = appendedTo(disk, task[t].fd, new)
    /\ UNCHANGED <<lock, mem, callVars, pathVars, pureVars>>

\* an fh.sync() that leaves the data where it is
afterSync_notFlushed(d, fd) == d

\* the file system after fh.sync(): the whole file is on stable storage
afterSync(d, fd) ==
    IF fd = "db" THEN [d EXCEPT !.db.synced = Len(d.db.text)] ELSE d

\* save: await fh.sync(), await fh.close(), return unwrap(current)
Sync(t) ==
    /\ task[t].pc = "sync"
    /\ \E e \in Outcomes :
        /\ hist' = counted(e)
        /\ IF e # "ok"
           THEN /\ task' = finish(t, Null, <<ioError(e, "save/write")>>)
                /\ disk' = disk
           ELSE /\ task' = finish(t, saveReturns(task[t].data), <<>>)
                /\ disk' = afterSync(disk, task[t].fd)
    /\ UNCHANGED <<lock, mem, callVars, pathVars, pureVars>>

\* withLock, finally: await release(); its failure is thrown, and the lock
\* it failed to remove stays in place
Release(t) ==
    /\ task[t].pc = "release"
    /\ \E e \in Outcomes :
        /\ hist' = counted(e)
        /\ lock' = IF e = "ok" /\ lock = t THEN 0 ELSE lock
        /\ task' = Upd(t, [pc |-> "done", locked |-> e # "ok",
                           ret |-> IF e # "ok" THEN Threw ELSE task[t].ret])
    /\ UNCHANGED <<disk, mem, callVars, pathVars, pureVars>>

\* the lines a save that returned a list has appended
promisedBy(tk) ==
    IF tk.pc = "done" /\ tk.op = "save" /\ tk.ret # Threw /\ tk.ret # Null
    THEN jsonRecs(tk.wrote) ELSE <<>>

\* the caller has the result of the call
Settle(t) ==
    /\ task[t].pc = "done"
    /\ hist' = [hist EXCEPT !.promised = @ \o promisedBy(task[t])]
    /\ task' = [task EXCEPT ![t] = [NoTask EXCEPT !.calls = task[t].calls]]
    /\ UNCHANGED <<disk, lock, mem, callVars, pathVars, pureVars>>

\* the process of caller t dies: its call and its cache are gone, the lock
\* it held is stale and is taken as free
ProcessCrash(t) ==
    /\ hist.crashing /\ hist.crashes < MaxCrashes
    /\ task[t].pc \notin {"idle", "done"}
    /\ hist' = [hist EXCEPT !.crashes = @ + 1]
    /\ task' = [task EXCEPT ![t] = [NoTask EXCEPT !.calls = task[t].calls]]
    /\ mem' = [mem EXCEPT ![t] = NoEntry]
    /\ lock' = IF lock = t THEN 0 ELSE lock
    /\ UNCHANGED <<disk, callVars, pathVars, pureVars>>

\* the text of a file after power loss: what was on stable storage, and
\* as much of the rest as had been written back
survives(text, synced) == {SubSeq(text, 1, k) : k \in synced..Len(text)}

\* power is lost: every process dies, each file keeps a prefix of its text
\* that contains what was flushed
PowerLoss ==
    /\ hist.crashing /\ hist.crashes < MaxCrashes
    /\ \E t \in Callers : task[t].pc # "idle"
    /\ \E dbText \in survives(disk.db.text, disk.db.synced) :
       \E tmpText \in survives(disk.tmp.text, 0) :
          disk' = [disk EXCEPT !.db.text = dbText, !.db.synced = Len(dbText),
                               !.tmp.text = tmpText]
    /\ hist' = [hist EXCEPT
                  !.crashes = @ + 1,
                  !.powerLost = TRUE,
                  !.promised = @ \o promisedBy(task[1]) \o promisedBy(task[2])]
    /\ task' = [t \in Callers |-> [NoTask EXCEPT !.calls = task[t].calls]]
    /\ mem' = [t \in Callers |-> NoEntry]
    /\ lock' = 0
    /\ UNCHANGED <<callVars, pathVars, pureVars>>

\* the log found at dbfile when the run starts: none, or one line written
\* and flushed earlier
StepFiles ==
    { OnDisk(NoFile, 0),
      OnDisk([exists |-> TRUE, text |-> <<stringify(RecA), NL>>], 2) }

\* what a process may have cached of that log when the run starts
StepEntries(f) ==
    IF f.exists
    THEN {NoEntry, [has |-> TRUE, map |-> replayState(logRecs(seen(f)))]}
    ELSE {NoEntry}

StepHist(faulty, crashing) ==
    [faulty |-> faulty, crashing |-> crashing, faults |-> 0, crashes |-> 0,
     promised |-> <<>>, saved |-> FALSE, powerLost |-> FALSE,
     db0 |-> seen(disk.db), mem0 |-> mem]

InitSteps ==
    /\ disk \in [db : StepFiles, tmp : {NoTmp}, lockFile : BOOLEAN]
    /\ lock = 0
    /\ mem \in [Callers -> StepEntries(disk.db)]
    /\ file = NoFile /\ cache = NoEntry /\ now = 1 /\ last = Idle
    /\ maxSeen = [id \in Ids |-> 0] /\ fresh = Null
    /\ PathsOff /\ PureOff

\* two callers with one call left each, no failing calls, no crash
InitConc ==
    /\ InitSteps
    /\ task = [t \in Callers |-> [NoTask EXCEPT !.calls = MaxCalls - 1]]
    /\ hist = StepHist(FALSE, FALSE)

\* one caller; calls of the file system and of the lock may fail, a
\* process may die and power may be lost
InitCrash ==
    /\ InitSteps
    /\ task = [t \in Callers |-> IF t = 1 THEN NoTask
                                 ELSE [NoTask EXCEPT !.calls = MaxCalls]]
    /\ hist = StepHist(TRUE, TRUE)

NextSteps ==
    \E t \in Callers :
        \/ Start(t)
        \/ Acquire(t)
        \/ CreateStat(t)
        \/ WriteFileOpen(t)
        \/ WriteFileWrite(t)
        \/ Rename(t)
        \/ Unlink(t)
        \/ LoadStat(t)
        \/ Read(t)
        \/ SaveStat(t)
        \/ Probe(t)
        \/ AppendOpen(t)
        \/ AppendWrite(t)
        \/ Sync(t)
        \/ Release(t)
        \/ Settle(t)

NextCrash == NextSteps \/ PowerLoss \/ \E t \in Callers : ProcessCrash(t)

SpecConc == InitConc /\ [][NextSteps]_vars

SpecCrash == InitCrash /\ [][NextCrash]_vars

-----------------------------------------------------------------------------
(* Claims about the steps *)

IsPrefix(a, b) == Len(a) <= Len(b) /\ SubSeq(b, 1, Len(a)) = a

\* C11: Append-only log.  Once a log file exists at the path, every step of
\* every call, in any interleaving, leaves the previous content of the file
\* as a prefix of its new content.
C11_AppendOnly ==
    [][disk.db.exists =>
          (disk'.db.exists /\ IsPrefix(disk.db.text, disk'.db.text))]_vars

\* the text create writes for a batch: data.str + "\n"
createText(b) == updatedRecs(<<>>, b, clkOf(b)).str \o <<NL>>

\* the batches with a record that create accepts
ValidBatches == {b \in StepBatches : Len(updatedRecs(<<>>, b, clkOf(b)).recs) > 0}

\* C12: Atomic create.  In every state of a create call, a crash or a
\* failure at any step included, the target path does not exist or holds
\* the complete serialized initial batch, never a partial or empty file.
C12_AtomicCreate ==
    (~hist.db0.exists /\ ~hist.saved /\ disk.db.exists) =>
        \E b \in ValidBatches : disk.db.text = createText(b)

\* the part of the file that is on stable storage
durable(d) == SubSeq(d.text, 1, d.synced)

InText(rec, text) == \E i \in 1..Len(text) : text[i] = stringify(rec)

\* the lines that saves have returned a list for, settled or not
promised == hist.promised \o promisedBy(task[1]) \o promisedBy(task[2])

\* C13: Durability.  When save has returned a list, every line it appended
\* is on stable storage, so it is in the file after a crash at any later
\* point.
C13_Durability ==
    \A i \in 1..Len(promised) :
        disk.db.exists /\ InText(promised[i], durable(disk.db))

\* a save appended a line to a log that create had written without
\* flushing it, returned a list, and power was lost afterwards
C13_Witness ==
    /\ hist.powerLost
    /\ ~hist.db0.exists
    /\ Len(hist.promised) > 0
    /\ Len(jsonRecs(disk.db.text)) > Len(hist.promised)

Returned(t) == task[t].pc = "done"

\* both callers made a save call, both held the path lock, both have
\* returned
BothSaved ==
    \A t \in Callers : Returned(t) /\ task[t].op = "save" /\ task[t].held

\* the two saves run one after the other, first caller a then caller b,
\* from the start of the run: the file, the caches, the results
serial(a, b) ==
    LET one == save(task[a].batch, hist.mem0[a], hist.db0, task[a].max,
                    clkOf(task[a].batch), now)
        two == save(task[b].batch, hist.mem0[b], one.file, task[b].max,
                    clkOf(task[b].batch), now)
    IN [file |-> two.file,
        mem |-> [t \in Callers |-> IF t = a THEN one.cache ELSE two.cache],
        ret |-> [t \in Callers |-> IF t = a THEN one.ret ELSE two.ret]]

outcome ==
    [file |-> seen(disk.db), mem |-> mem, ret |-> [t \in Callers |-> task[t].ret]]

\* C14: Serialized writers.  Two callers never hold the path lock at the
\* same time, and when two concurrent saves both held it, the file, the
\* caches and the results are those of the two saves run one after the
\* other in some order.
C14_SerializedWriters ==
    /\ ~(task[1].locked /\ task[2].locked)
    /\ \A t \in Callers : task[t].locked <=> lock = t
    /\ BothSaved => (outcome = serial(1, 2) \/ outcome = serial(2, 1))

\* two saves of versions that tie in tm and differ in content both held
\* the lock and both appended: the order decides the state
C14_Witness ==
    /\ BothSaved
    /\ task[1].wrote # <<>> /\ task[2].wrote # <<>>
    /\ task[1].batch # task[2].batch
    /\ serial(1, 2) # serial(2, 1)

BothCreated ==
    /\ ~hist.db0.exists
    /\ \A t \in Callers :
          /\ Returned(t) /\ task[t].op = "create" /\ task[t].ret # Threw
          /\ task[t].batch \in ValidBatches

Reported(t, code) ==
    \E i \in 1..Len(task[t].errs) : task[t].errs[i].code = code

IsList(r) == r # Threw /\ r # Pending /\ r.ok

\* C15: Exclusive creation.  Of two concurrent create calls on a path
\* without file at most one returns a record list, the other returns null
\* with code EEXIST, and the file holds the winner's batch.
C15_ExclusiveCreate ==
    BothCreated =>
        \E w \in Callers :
            LET l == 3 - w IN
            /\ task[l].ret = Null /\ Reported(l, "EEXIST")
            /\ IsList(task[w].ret) => seen(disk.db).text = createText(task[w].batch)

BodyNotRun(t) ==
    /\ task[t].data = NoData /\ task[t].wrote = <<>> /\ task[t].errs = <<>>

C17_NoException ==
    \A t \in Callers : Returned(t) => task[t].ret # Threw

\* a report of a failed call of the file system on the log
IoFailure(e) ==
    Has(e.record, "operation") \/ e.message = "Failed checking fileEndsWithNewline"

\* the reports the spec counts as fatal to the call: the target exists, the
\* size ceiling, a failed call of the file system on the log
FatalKind(e) == e.code \in {"EEXIST", "FILE_TOO_LARGE"} \/ IoFailure(e)

\* the failures that save reports and passes over: the stat before the
\* append and the check for the final newline
PassedOver(e) ==
    \/ (Has(e.record, "operation") /\ e.record.operation = "save/stat")
    \/ e.message = "Failed checking fileEndsWithNewline"

NullHasReport ==
    \A t \in Callers :
        (Returned(t) /\ task[t].ret = Null) => Len(task[t].errs) > 0

-----------------------------------------------------------------------------
(* Claims about single calls, under Spec *)

\* C21: save never brings a log file into existence: a save on a path
\* without file returns null, writes nothing, and leaves the path without
\* file.
C21_SaveNeverCreates ==
    (last.op = "save" /\ ~last.file0.exists) =>
        (last.ret = Null /\ file = last.file0)

\* no record of the batch survives validation: the batch is empty or every
\* record lacks an id
NoneSurvives(b) == \A i \in 1..Len(b) : ~HasId(b[i])

NoValidReported(errs) ==
    \E i \in 1..Len(errs) : errs[i].message = "failed to find any valid records"

\* C22: create on a path without file, with a batch in which no record
\* survives validation, returns null, reports that it found no valid
\* record, and leaves no file at the path.
C22_NoValidRecords ==
    (last.op = "create" /\ ~last.file0.exists /\ NoneSurvives(last.batch)) =>
        /\ last.ret = Null
        /\ NoValidReported(last.errs)
        /\ ~file.exists

\* a create of two records without id has failed that way, each record
\* reported as well
C22_Witness ==
    /\ last.op = "create" /\ ~last.file0.exists
    /\ Len(last.batch) = 2 /\ NoneSurvives(last.batch)
    /\ last.ret = Null /\ Len(last.errs) = 3 /\ ~file.exists

\* the records of the batch that came with an id and without tm
Defaulted(b) == {i \in 1..Len(b) : HasId(b[i]) /\ ~HasTm(b[i])}

\* the copy the engine makes of record i of the latest call
derived(i) == WithTm(last.batch[i], last.clk[i])

\* the state the latest call started from holds a version of id
known0(id) ==
    IF last.cache0.has THEN mapHas(last.cache0.map, id)
    ELSE \E j \in 1..Len(logRecs(last.file0)) : logRecs(last.file0)[j].id = id

AllHaveTm(recs) == \A j \in 1..Len(recs) : HasTm(recs[j])

IsIn(rec, recs) == \E j \in 1..Len(recs) : recs[j] = rec

\* C23: Default timestamp without mutation.  After a save or create the
\* caller's records are as they were handed in (a record without tm is
\* still without tm); no record is stored or returned without tm; and a
\* record without tm whose id the state did not hold is stored, written
\* and returned as a copy that carries the clock reading as tm.
C23_DefaultTm ==
    last.op \in {"save", "create"} =>
        /\ last.arg = last.batch
        /\ AllHaveTm(last.ret.recs) /\ AllHaveTm(cache.map)
        /\ (last.ret.ok /\ Len(last.batch) = 1 /\ Defaulted(last.batch) = {1}
                /\ ~known0(last.batch[1].id)) =>
              /\ IsIn(derived(1), last.ret.recs)
              /\ IsIn(derived(1), cache.map)
              /\ lines(file.text)[Len(lines(file.text))] = <<stringify(derived(1))>>

\* a save of one record without tm, at clock reading 2, on a log that holds
\* another id: the copy with tm 2 is returned and written
C23_Witness ==
    /\ last.op = "save" /\ last.ret.ok /\ last.file0.exists
    /\ Len(last.batch) = 1 /\ Defaulted(last.batch) = {1}
    /\ ~known0(last.batch[1].id) /\ last.clk[1] = 2
    /\ Len(last.ret.recs) = 2
    /\ IsIn(derived(1), last.ret.recs) /\ ~Has(last.arg[1], "tm")

\* the versions of the batch of the latest call that superseded the state
\* as it was when they were processed, in batch order
superseding == supersedingFrom(processed, Len(preState) + 1)

\* the text of one line per record
RECURSIVE linesOf(_)
linesOf(recs) ==
    IF Len(recs) = 0 THEN <<>>
    ELSE <<stringify(recs[1]), NL>> \o linesOf(Tail(recs))

\* the newline save puts first when the file does not end with one
lead(f) ==
    IF f.exists /\ Len(f.text) > 0 /\ ~IsNL(f.text[Len(f.text)])
    THEN <<NL>> ELSE <<>>

\* C24: Only changed records are written.  What a save appends is one line
\* for each record of the batch that superseded the current state, in batch
\* order, and nothing else; when no record supersedes, the file is left as
\* it was and save returns the current full record set.
C24_OnlyChanged ==
    (last.op = "save" /\ last.ret.ok) =>
        /\ file.text = last.file0.text \o
              (IF superseding = <<>> THEN <<>>
               ELSE lead(last.file0) \o linesOf(superseding))
        /\ superseding = <<>> => (file = last.file0 /\ last.ret.recs = preState)

\* a save of two records of which only the second superseded: one line
\* was appended
C24_Witness ==
    /\ last.op = "save" /\ last.ret.ok /\ Len(last.batch) = 2
    /\ HasId(last.batch[1]) /\ HasId(last.batch[2])
    /\ Len(superseding) = 1
    /\ superseding[1] = recWithTm(last.batch[2], last.clk[2])
    /\ Len(file.text) = Len(last.file0.text) + 2

\* C25: State-mapping invariant.  For every id of the cached state the
\* cached record's tm is at least the tm of every version of that id
\* processed so far (the versions of the log the run started with, and
\* those handed to create and save calls that reached the merge); and no
\* call other than clearCache lowers the cached tm of an id or drops the id.
C25_TmNeverDecreases ==
    /\ cache.has =>
          \A i \in 1..Len(cache.map) :
              cache.map[i].tm >= maxSeen[cache.map[i].id]
    /\ (cache.has /\ last.op # "clearCache" /\ last.cache0.has) =>
          \A j \in 1..Len(last.cache0.map) :
              /\ mapHas(cache.map, last.cache0.map[j].id)
              /\ mapGet(cache.map, last.cache0.map[j].id).tm
                    >= last.cache0.map[j].tm

\* a save handed an older version of an id to the merge while the cache
\* held a newer one: the cached version stayed
C25_Witness ==
    /\ last.op = "save" /\ last.ret.ok /\ last.cache0.has
    /\ Len(last.batch) = 1 /\ HasId(last.batch[1]) /\ HasTm(last.batch[1])
    /\ mapHas(cache.map, last.batch[1].id)
    /\ mapGet(cache.map, last.batch[1].id).tm > last.batch[1].tm
    /\ maxSeen[last.batch[1].id] = MaxTm

\* the records of the batch saved one by one, record i and those after it:
\* n successive save calls of one record each, with the same ceiling and
\* the same clock readings
RECURSIVE saveEach(_, _, _, _, _)
saveEach(st, b, clk, mx, i) ==
    IF i > Len(b) THEN st
    ELSE LET r == save(<<b[i]>>, st.cache, st.file, mx, <<clk[i]>>, clk[i])
         IN saveEach([cache |-> r.cache, file |-> r.file, ret |-> r.ret],
                     b, clk, mx, i + 1)

ExplicitTms(b) == \A i \in 1..Len(b) : HasTm(b[i])

\* C26: Batch order semantics.  A save of a batch r1..rn (n >= 1) with
\* explicit timestamps leaves the same file (the same appended lines), the
\* same cached state and the same returned list as n successive saves of
\* r1, ..., rn from the same start.
C26_BatchAsSequence ==
    (last.op = "save" /\ Len(last.batch) >= 1 /\ ExplicitTms(last.batch)) =>
        LET one == saveEach([cache |-> last.cache0, file |-> last.file0,
                             ret |-> Null],
                            last.batch, last.clk, last.max, 1)
        IN file = one.file /\ cache = one.cache /\ last.ret = one.ret

\* a batch of two versions of one id, equal tm and different content, on a
\* log: both superseded, the second because it saw the first
C26_Witness ==
    /\ last.op = "save" /\ last.ret.ok /\ last.file0.exists
    /\ Len(last.batch) = 2 /\ ExplicitTms(last.batch)
    /\ HasId(last.batch[1]) /\ HasId(last.batch[2])
    /\ last.batch[1].id = last.batch[2].id
    /\ last.batch[1].tm = last.batch[2].tm
    /\ last.batch[1] # last.batch[2]
    /\ Len(superseding) = 2
    /\ IsIn(last.batch[2], last.ret.recs)

-----------------------------------------------------------------------------
(* Line framing.  The log may have been left by another writer without the  *)
(* final newline.                                                           *)

\* a log whose last line is not closed by a newline
Unterminated == OnDisk([exists |-> TRUE, text |-> <<stringify(RecA)>>], 1)

InitFraming ==
    /\ disk \in [db : StepFiles \cup {Unterminated}, tmp : {NoTmp},
                 lockFile : BOOLEAN]
    /\ lock = 0
    /\ mem \in [Callers -> StepEntries(disk.db)]
    /\ file = NoFile /\ cache = NoEntry /\ now = 1 /\ last = Idle
    /\ maxSeen = [id \in Ids |-> 0] /\ fresh = Null
    /\ PathsOff /\ PureOff
    /\ task = [t \in Callers |-> [NoTask EXCEPT !.calls = MaxCalls - 1]]
    /\ hist = StepHist(FALSE, FALSE)

SpecFraming == InitFraming /\ [][NextSteps]_vars

\* every line holds exactly one serialized record: no blank line, no two
\* records on a line
Framed(text) ==
    \A i \in 1..Len(lines(text)) : jsonParses(lines(text)[i])

EndsWithNL(text) == Len(text) > 0 /\ IsNL(text[Len(text)])

\* no call is in progress
Quiet == \A t \in Callers : task[t].pc \in {"idle", "done"}

FramingHolds ==
    disk.db.exists =>
        /\ Framed(disk.db.text)
        /\ disk.db.text # hist.db0.text => EndsWithNL(disk.db.text)

\* C27: Line framing invariant.  After any sequence and any interleaving
\* of create and save calls, the file is a sequence of lines of one record
\* each, without blank line, and ends with a newline once a call has
\* written to it.
C27_LineFraming == Quiet => FramingHolds

\* the same for the runs in which the calls take the path lock
FramingUnderLock == (Quiet /\ disk.lockFile) => FramingHolds

\* both callers have appended, under the lock, to a log that did not end
\* with a newline
BothAppendedUnderLock ==
    /\ Quiet /\ disk.lockFile /\ hist.db0 = seen(Unterminated)
    /\ \A t \in Callers : task[t].op = "save" /\ task[t].held /\ task[t].wrote # <<>>
    /\ Len(lines(disk.db.text)) = 3

-----------------------------------------------------------------------------
(* Lock release *)

\* the call of caller t took the lock and its body has returned a list or
\* null (after a report, when a step inside the locked section failed)
LeftLockedSection(t) ==
    Returned(t) /\ task[t].held /\ task[t].ret # Threw

\* C28: Lock release.  When a save or create that took the path lock has
\* completed, with a list or with null, the lock is no longer held by it.
C28_LockReleased ==
    \A t \in Callers :
        LeftLockedSection(t) => (lock # t /\ ~task[t].locked)

\* a save that took the lock, failed at a step inside the locked section
\* and returned null, has released the lock
C28_Witness ==
    \E t \in Callers :
        /\ LeftLockedSection(t) /\ task[t].op = "save" /\ task[t].ret = Null
        /\ Reported(t, "EIO")
        /\ lock = 0

-----------------------------------------------------------------------------
(* Completion.  A step of a call that has started is taken in the end: the  *)
(* event loop resumes every await whose file-system call has answered, and  *)
(* lock() answers after its retries at the latest.  The caller is free to   *)
(* make no call, and to leave a result untaken.                             *)

\* the steps of the call of caller t
Progress(t) ==
    \/ Acquire(t) \/ CreateStat(t) \/ WriteFileOpen(t) \/ WriteFileWrite(t)
    \/ Rename(t) \/ Unlink(t) \/ LoadStat(t) \/ Read(t) \/ SaveStat(t)
    \/ Probe(t) \/ AppendOpen(t) \/ AppendWrite(t) \/ Sync(t) \/ Release(t)

\* one caller that makes its calls one after the other; calls of the file
\* system and of the lock may fail, the release of the lock included, which
\* leaves the lock in place for the next call; no process dies
InitLive ==
    /\ InitSteps
    /\ mem[2] = NoEntry
    /\ task = [t \in Callers |-> IF t = 1 THEN NoTask
                                 ELSE [NoTask EXCEPT !.calls = MaxCalls]]
    /\ hist = StepHist(TRUE, FALSE)

SpecLive ==
    InitLive /\ [][NextSteps]_vars /\ \A t \in Callers : WF_vars(Progress(t))

Running(t) == task[t].pc \notin {"idle", "done"}

\* the call ended in withLock, before its body: lock() failed with an
\* error that is thrown again
LockFailed(t) == task[t].lockErr # "" /\ ~tolerated(task[t].lockErr)

ResolvedOnce ==
    \A t \in Callers :
        /\ task[t].resolved <= 1
        /\ (Returned(t) /\ task[t].op \in {"load", "save"} /\ ~LockFailed(t))
              => task[t].resolved = 1

\* C29: every create, load and save call that has started completes, also
\* when the lock is held by another caller or a file-system call fails, and
\* the promise of load_ is resolved exactly once, whether the stream ends
\* or fails.
C29_Completes ==
    /\ []ResolvedOnce
    /\ \A t \in Callers : Running(t) ~> Returned(t)

\* a load whose stream failed has returned null, its promise resolved once
C29_Witness ==
    \E t \in Callers :
        /\ Returned(t) /\ task[t].op = "load" /\ task[t].ret = Null
        /\ task[t].resolved = 1
        /\ \E i \in 1..Len(task[t].errs) :
              /\ task[t].errs[i].code = "EIO"
              /\ task[t].errs[i].message = "load/read"

-----------------------------------------------------------------------------
(* Lines that are not records.  The log is found with up to MaxLines lines  *)
(* of every kind a line can be.                                             *)

MaxLines == 3       \* lines of a log found at dbfile

LineKinds ==
    << <<stringify([id |-> "1", tm |-> 1, val |-> 1])>>,
       <<stringify([id |-> "1", tm |-> 2, val |-> 2])>>,
       <<stringify([id |-> "2", tm |-> 1, val |-> 1])>>,
       <<stringify([id |-> "2", tm |-> 0, val |-> 2])>>,     \* "tm":0
       <<>>,                                                 \* a blank line
       <<Junk>>,                                             \* not JSON
       <<stringify([id |-> "1", tm |-> 2, val |-> 1]), Junk>>, \* JSON, then more
       <<stringify([tm |-> 2, val |-> 1])>>,                 \* no id
       <<stringify([id |-> "1", val |-> 1])>>,               \* no tm
       <<stringify([id |-> "1", tm |-> 2, val |-> 1,
                    typeof |-> [id |-> "number"]])>>,        \* "id":1
       <<stringify([id |-> "1", tm |-> 2, val |-> 1,
                    typeof |-> [tm |-> "string"]])>>,        \* "tm":"2"
       <<stringify([isNull |-> TRUE])>> >>                   \* null

\* the text of the lines of kinds ks, the last one with or without newline
RECURSIVE textOf(_, _)
textOf(ks, final) ==
    IF Len(ks) = 0 THEN <<>>
    ELSE IF Len(ks) = 1
         THEN LineKinds[ks[1]] \o (IF final THEN <<NL>> ELSE <<>>)
         ELSE LineKinds[ks[1]] \o <<NL>> \o textOf(Tail(ks), final)

InitLoad ==
    /\ \E n \in 0..MaxLines : \E ks \in [1..n -> 1..Len(LineKinds)] :
       \E final \in BOOLEAN :
           file = [exists |-> TRUE, text |-> textOf(ks, final)]
    /\ cache = NoEntry
    /\ now = 1
    /\ last = Idle
    /\ maxSeen = [id \in Ids |-> maxTmOf(logRecs(file), id)]
    /\ fresh = Null
    /\ StepsOff /\ PathsOff /\ PureOff

NextLoad == Load \/ ClearCache \/ Return

SpecLoad == InitLoad /\ [][NextLoad]_vars

\* the line is not one JSON text, or the JSON value has no string under id
\* or no number under tm
NotARecord(line) ==
    \/ Len(line) # 1
    \/ ~Has(line[1], "json")
    \/ ~Has(line[1].json, "id")
    \/ ~Has(line[1].json, "tm")
    \/ (Has(line[1].json, "typeof") /\ line[1].json.typeof # <<>>)

\* the records of the lines that are records, in file order
RECURSIVE recordsOf(_)
recordsOf(ls) ==
    IF Len(ls) = 0 THEN <<>>
    ELSE IF NotARecord(ls[1]) THEN recordsOf(Tail(ls))
         ELSE <<ls[1][1].json>> \o recordsOf(Tail(ls))

\* line number and raw text of every line that is not a record, in order
RECURSIVE notRecords(_, _)
notRecords(ls, n) ==
    IF n > Len(ls) THEN <<>>
    ELSE IF NotARecord(ls[n])
         THEN <<[linenum |-> n, line |-> ls[n]]>> \o notRecords(ls, n + 1)
         ELSE notRecords(ls, n + 1)

\* what the reports about lines say, in the order they were made
RECURSIVE lineReports(_)
lineReports(errs) ==
    IF Len(errs) = 0 THEN <<>>
    ELSE IF errs[1].message = "failed to get record from line"
         THEN <<[linenum |-> errs[1].linenum, line |-> errs[1].record.line]>>
              \o lineReports(Tail(errs))
         ELSE lineReports(Tail(errs))

\* C30: a load that reads the file reports every line that is not valid
\* JSON or lacks a string id or a numeric tm once, with its 1-based line
\* number and its raw text, reports no other line, and returns the state
\* built from all the other lines.
C30_BadLinesSkipped ==
    LoadedFromDisk =>
        LET ls == lines(last.file0.text) IN
        /\ lineReports(last.errs) = notRecords(ls, 1)
        /\ last.ret.recs = replayState(recordsOf(ls))

\* a load has read a log whose second line is not JSON and whose third line
\* is a newer version of the record of the first
C30_Witness ==
    /\ LoadedFromDisk
    /\ last.file0.text = textOf(<<1, 6, 2>>, TRUE)
    /\ last.ret.recs = <<[id |-> "1", tm |-> 2, val |-> 2]>>
    /\ lineReports(last.errs) = <<[linenum |-> 2, line |-> <<Junk>>]>>

-----------------------------------------------------------------------------
(* A read stream that fails *)

ReadFailed(t) ==
    \E i \in 1..Len(task[t].errs) :
        /\ task[t].errs[i].code = "EIO"
        /\ task[t].errs[i].message = "load/read"

\* the step gives caller t a cache entry, or another one, during a load
LoadInstalls(t) ==
    /\ task[t].op = "load" /\ task[t].pc \notin {"idle", "done"}
    /\ mem'[t].has /\ mem'[t] # mem[t]

\* C31: a load whose read stream failed has returned null and has left no
\* cache entry; a step of a load installs a cache entry only when it has
\* read the file to its end, and then the entry is the state of the whole
\* file.
C31_FailedReadNotCached ==
    /\ [](\A t \in Callers :
            (Returned(t) /\ task[t].op = "load" /\ ReadFailed(t))
                => (task[t].ret = Null /\ mem[t] = NoEntry))
    /\ [][\A t \in Callers :
            LoadInstalls(t) =>
                /\ task[t].pc = "read" /\ ~ReadFailed(t)'
                /\ mem'[t].map = replayState(logRecs(seen(disk.db)))
                /\ task'[t].ret = Some(mem'[t].map)]_vars

\* a load of a log that exists has failed in its read stream
C31_Witness ==
    \E t \in Callers :
        /\ Returned(t) /\ task[t].op = "load" /\ ReadFailed(t)
        /\ disk.db.exists /\ Len(disk.db.text) > 0
        /\ task[t].ret = Null /\ mem[t] = NoEntry

-----------------------------------------------------------------------------
(* Advisory conditions.  Whether a timestamp is judged implausible depends  *)
(* on the clock reading at which it is judged and on nothing else; whether  *)
(* save warns about the size depends on the size of the file and on        *)
(* nothing else.  The call made is compared with the same call at other    *)
(* clock readings, and with the same call on the compacted log, which is   *)
(* below the warning threshold.                                            *)

\* the clock readings that differ from clk only where a supplied tm is judged
OtherReadings(b, clk) ==
    {c \in [1..Len(b) -> 1..MaxClock] :
        \A i \in 1..Len(b) : ~HasTm(b[i]) => c[i] = clk[i]}

\* the call of last made again from the state it was made in, on file f, at
\* the readings c for the batch and u for the reader
madeOn(f, c, u) ==
    IF last.op = "create" THEN create(last.batch, last.cache0, f, c)
    ELSE IF last.op = "save"
         THEN save(last.batch, last.cache0, f, last.max, c, u)
         ELSE load(last.cache0, f, last.max, u)

suffix(before, after) ==
    SubSeq(after.text, Len(before.text) + 1, Len(after.text))

\* the log with one line per record of its state, ending as f ends
compacted(f) ==
    LET text == linesOf(replayState(logRecs(f))) IN
    [exists |-> TRUE,
     text |-> IF EndsWithNL(f.text) THEN text
              ELSE SubSeq(text, 1, Len(text) - 1)]

SizeWarned ==
    \E i \in 1..Len(last.errs) : last.errs[i].code = "FILE_SIZE_WARNING"

TmWarned ==
    \E i \in 1..Len(last.errs) : last.errs[i].code = "INVALID_TIMESTAMP"

\* C32: advisory conditions do not change the outcome.  The file, the cache
\* entry and the value returned by a create, save or load are the same at
\* every clock reading at which the timestamps could have been judged; and
\* a save that warned about the size of the file returns, caches and appends
\* what the same save on the compacted log does, which gives no warning.
C32_AdvisoryOnly ==
    /\ last.op \in {"create", "save", "load"} =>
          \A c \in OtherReadings(last.batch, last.clk) : \A u \in 1..MaxClock :
              LET r == madeOn(last.file0, c, u) IN
              /\ r.file = file /\ r.cache = cache /\ r.ret = last.ret
    /\ (/\ last.op = "save" /\ SizeWarned /\ Len(logRecs(last.file0)) > 0
        /\ size(compacted(last.file0)) <= SizeWarnBytes) =>
          LET small == compacted(last.file0)
              r == madeOn(small, last.clk, 1)
          IN /\ \A i \in 1..Len(r.errs) : r.errs[i].code # "FILE_SIZE_WARNING"
             /\ r.ret = last.ret /\ r.cache = cache
             /\ suffix(small, r.file) = appended

\* a save that wrote a record has warned about the size of the file and
\* about a timestamp ahead of the clock
C32_Witness ==
    /\ last.op = "save" /\ last.ret.ok /\ file # last.file0
    /\ SizeWarned /\ TmWarned
    /\ Len(logRecs(last.file0)) > 0
    /\ size(compacted(last.file0)) <= SizeWarnBytes

-----------------------------------------------------------------------------
(* The comparator by itself.  A JSON value under a key other than id and tm *)
(* is written with its type: a number, null, or an object of such values.   *)

JNum(n) == [num |-> n]
JNull == [null |-> TRUE]
JObj(o) == [obj |-> o]

EqVals ==
    {JNum(1), JNum(2), JNull,
     JObj([a |-> JNum(1)]), JObj([a |-> JNum(2)]), JObj([a |-> JNull]),
     JObj([b |-> JNum(1)]),
     JObj([tm |-> JNum(1)]), JObj([tm |-> JNum(2)])}

\* records as notEq is handed them, and records without tm
EqRecs ==
    {[id |-> "1", tm |-> t, val |-> v] : t \in Tms, v \in EqVals}
        \cup {[id |-> "1", tm |-> t, alt |-> v] : t \in Tms, v \in {JNum(1), JNull}}
        \cup {[id |-> "1", tm |-> t, val |-> JNum(1), alt |-> v] :
                  t \in Tms, v \in {JNum(1), JNull}}
        \cup {[id |-> i, tm |-> t] : i \in Ids, t \in Tms}
        \cup {[id |-> "1", val |-> v] : v \in {JNum(1), JNull}}

NotCalled == [called |-> FALSE]

InitNotEq ==
    /\ args \in EqRecs \X EqRecs
    /\ result = NotCalled
    /\ file = NoFile /\ cache = NoEntry /\ now = 1 /\ last = Idle
    /\ maxSeen = [id \in Ids |-> 0] /\ fresh = Null
    /\ StepsOff /\ PathsOff

\* notEq(c, r), notEq(r, c) and notEq(c, c) are called
Compare ==
    /\ result = NotCalled
    /\ result' = [called |-> TRUE,
                  cr |-> notEq(args[1], args[2]),
                  rc |-> notEq(args[2], args[1]),
                  cc |-> notEq(args[1], args[1])]
    /\ UNCHANGED <<args, callVars, stepVars, pathVars>>

NextNotEq == Compare

SpecNotEq == InitNotEq /\ [][NextNotEq]_vars

\* the field names of a record, tm aside
names(r) == DOMAIN r \ {"tm"}

\* the records differ in their field names or in the value of a field,
\* the top-level tm aside
Differ(c, r) ==
    \/ names(c) # names(r)
    \/ \E k \in names(c) \cap names(r) : c[k] # r[k]

\* C33: notEq(c, r) answers, and answers true exactly when the records
\* differ in their field names or in the value of a field other than the
\* top-level tm, nested values compared by structure; it answers false for
\* a record and itself, and the same with its arguments swapped.
C33_NotEq ==
    result.called =>
        /\ result.cr \in BOOLEAN
        /\ result.cr <=> Differ(args[1], args[2])
        /\ result.cc = FALSE
        /\ result.rc = result.cr

\* two records that differ in tm and in a tm inside a nested object were
\* found different; two that differ in tm only were found equal
C33_Witness ==
    /\ result.called
    /\ \/ /\ args = <<[id |-> "1", tm |-> 1, val |-> JObj([tm |-> JNum(1)])],
                       [id |-> "1", tm |-> 2, val |-> JObj([tm |-> JNum(2)])]>>
          /\ result.cr
       \/ /\ args = <<[id |-> "1", tm |-> 1, val |-> JNull],
                       [id |-> "1", tm |-> 2, val |-> JNull]>>
          /\ ~result.cr

-----------------------------------------------------------------------------
(* Cleanup of the temporary file.  Two callers make one create call each   *)
(* on a path without file; one call of the file system may fail.           *)

StartCreate(t) == Start(t) /\ task'[t].op = "create"

InitCleanup ==
    /\ InitSteps
    /\ ~disk.db.exists
    /\ task = [t \in Callers |-> [NoTask EXCEPT !.calls = MaxCalls - 1]]
    /\ hist = StepHist(TRUE, FALSE)

NextCleanup ==
    \E t \in Callers :
        \/ StartCreate(t)
        \/ Acquire(t)
        \/ CreateStat(t)
        \/ WriteFileOpen(t)
        \/ WriteFileWrite(t)
        \/ Rename(t)
        \/ Unlink(t)
        \/ Release(t)

SpecCleanup == InitCleanup /\ [][NextCleanup]_vars

\* the step ends the catch of caller t's create
CleansUp(t) == task[t].pc = "unlink" /\ task'[t].pc # "unlink"

\* caller u has written the temporary file and has not yet renamed it
AboutToRename(u) == task[u].op = "create" /\ task[u].pc = "rename"

\* the catch of a create leaves no temporary file behind
NoTmpLeft ==
    [][\A t \in Callers : CleansUp(t) => ~disk'.tmp.exists]_vars

\* the catch of a create does not delete the temporary file that another
\* create is about to rename
SparesOthers ==
    [][\A t \in Callers :
          (CleansUp(t) /\ disk.tmp.exists /\ ~disk'.tmp.exists)
              => \A u \in Callers \ {t} : ~AboutToRename(u)]_vars

\* C34: a create that returns null through its catch leaves no temporary
\* file when it ends, and does not delete the temporary file that another
\* create, still running, is about to rename.
C34_TmpCleanup == NoTmpLeft /\ SparesOthers

\* with the lock file in place the catch of one create never meets the
\* temporary file of another
SparesOthersUnderLock ==
    [][\A t \in Callers :
          (disk.lockFile /\ CleansUp(t) /\ disk.tmp.exists /\ ~disk'.tmp.exists)
              => \A u \in Callers \ {t} : ~AboutToRename(u)]_vars

-----------------------------------------------------------------------------
(* Appends without the lock *)

\* both callers made a save call that went on without the lock, and both
\* have returned a list
BothSavedUnlocked ==
    \A t \in Callers :
        /\ Returned(t) /\ task[t].op = "save"
        /\ task[t].lockErr = "ENOENT" /\ IsList(task[t].ret)

\* the lines caller t's save applied, as lines of text
appliedLines(t) ==
    [i \in 1..Len(task[t].data.recs) |-> <<stringify(task[t].data.recs[i])>>]

\* the lines of a text that are not blank
RECURSIVE nonBlank(_)
nonBlank(ls) ==
    IF Len(ls) = 0 THEN <<>>
    ELSE IF ls[1] = <<>> THEN nonBlank(Tail(ls))
         ELSE <<ls[1]>> \o nonBlank(Tail(ls))

\* the highest tm of id in the log at the start and in what the two
\* callers submitted
highestGiven(id) ==
    Max({maxTmOf(logRecs(hist.db0), id)} \cup
        {maxTmOf(stamped(task[t].batch, clkOf(task[t].batch)), id) : t \in Callers})

\* C35: after two save calls that ran without the lock, in any
\* interleaving, the file holds the lines it held before and every line
\* either call applied, each as a line of its own, the lines of one call
\* together; and replaying the file gives for every id the highest tm
\* either call submitted or the log held.
C35_UnlockedAppends ==
    BothSavedUnlocked =>
        /\ \E a \in Callers : \E b \in Callers \ {a} :
              nonBlank(lines(disk.db.text)) =
                  nonBlank(lines(hist.db0.text))
                      \o appliedLines(a) \o appliedLines(b)
        /\ \A id \in Ids :
              maxTmOf(replayState(logRecs(seen(disk.db))), id) = highestGiven(id)

\* both saves appended to a log that did not end with a newline, each
\* after having found it so
C35_Witness ==
    /\ BothSavedUnlocked
    /\ \A t \in Callers : Len(task[t].data.recs) > 0 /\ ~task[t].nl
    /\ ~EndsWithNL(hist.db0.text)

-----------------------------------------------------------------------------
(* Calls in flight in one process.  The callers share the CACHE of their   *)
(* process (cache) and the log (file).  load takes no lock; save takes the *)
(* path lock when the lock file exists, and goes on without it otherwise.  *)
(* The stream of load_ reads the file in one step and its close handler    *)
(* runs in a later one; updatedRecs runs in the step in which load_        *)
(* resolves, on the map that is in the cache then.  task[t].owed is        *)
(* history: what the saves that had returned promised when the load began. *)

\* an updatedRecs that works on a copy and leaves the cached map alone
setInPlace_copy(cur, data) == cur

\* cached.set(recWithTm.id, recWithTm): the map in the cache after
\* updatedRecs has run on it
setInPlace(cur, data) == data.cached

NoOwed == [id \in Ids |-> 0]

ProcIdle ==
    [op |-> "none", pc |-> "idle", batch |-> <<>>, locked |-> FALSE,
     ctx |-> <<>>, data |-> NoData, nl |-> TRUE, ret |-> Pending,
     owed |-> NoOwed, calls |-> 0]

InitProc ==
    /\ file = [exists |-> TRUE, text |-> <<stringify(RecA), NL>>]
    /\ cache \in StepEntries(file)
    /\ lock = 0
    /\ task = [t \in Callers |-> ProcIdle]
    /\ hist \in [lockFile : BOOLEAN, promised : {NoOwed}, overlapped : {FALSE}]
    /\ now = 1 /\ last = Idle
    /\ maxSeen = [id \in Ids |-> 0] /\ fresh = Null
    /\ disk = <<>> /\ mem = <<>>
    /\ PathsOff /\ PureOff

\* the variables that stand for nothing here
procOff == <<now, last, maxSeen, fresh, disk, mem, pathVars, pureVars>>

ProcUpd(t, upd) == [task EXCEPT ![t] = upd @@ @]

InFlight(t) == task[t].pc \notin {"idle", "done"}

\* the tm of id in a list of records, 0 when the list has none
tmIn(recs, id) ==
    IF \E i \in 1..Len(recs) : recs[i].id = id THEN recOf(recs, id).tm ELSE 0

\* what the saves that have returned promise, r being returned now
promising(r) ==
    [id \in Ids |-> Max({hist.promised[id], tmIn(r, id)})]

\* the caller calls load or save
ProcStart(t) ==
    /\ task[t].pc = "idle"
    /\ task[t].calls < MaxCalls
    /\ \E op \in {"load", "save"} :
       \E b \in IF op = "load" THEN {<<>>} ELSE StepBatches :
          task' = ProcUpd(t, [op |-> op, batch |-> b,
                              pc |-> IF op = "load" THEN "load" ELSE "lock",
                              locked |-> FALSE, ctx |-> <<>>, data |-> NoData,
                              nl |-> TRUE, ret |-> Pending,
                              owed |-> hist.promised,
                              calls |-> task[t].calls + 1])
    /\ hist' = [hist EXCEPT !.overlapped =
                    @ \/ \E u \in Callers \ {t} : InFlight(u)]
    /\ UNCHANGED <<file, cache, lock, procOff>>

\* withLock up to the call of fn
ProcAcquire(t) ==
    /\ task[t].pc = "lock"
    /\ IF ~hist.lockFile
       THEN /\ task' = ProcUpd(t, [pc |-> "load"])
            /\ lock' = lock
       ELSE IF lockFree(lock)
            THEN /\ task' = ProcUpd(t, [pc |-> "load", locked |-> TRUE])
                 /\ lock' = t
            ELSE /\ task' = ProcUpd(t, [pc |-> "done", ret |-> Threw])
                 /\ lock' = lock
    /\ UNCHANGED <<file, cache, hist, procOff>>

\* the call of caller t ends with r; release() when the lock is held
ended(t, r) ==
    /\ lock' = IF task[t].locked THEN 0 ELSE lock
    /\ hist' = IF task[t].op = "save" /\ r.ok
               THEN [hist EXCEPT !.promised = promising(r.recs)]
               ELSE hist

\* load_ resolved with the map cur: load returns it, save runs updatedRecs
\* on it and returns when nothing is new
resolved(t, cur) ==
    IF task[t].op = "load"
    THEN /\ task' = ProcUpd(t, [pc |-> "done", ret |-> Some(unwrap(cur))])
         /\ cache' = [has |-> TRUE, map |-> cur]
         /\ ended(t, Some(unwrap(cur)))
    ELSE LET data == updatedRecs(cur, task[t].batch, clkOf(task[t].batch)) IN
         /\ cache' = [has |-> TRUE, map |-> setInPlace(cur, data)]
         /\ IF Len(data.recs) = 0
            THEN /\ task' = ProcUpd(t, [pc |-> "done", ret |-> saveReturns(data)])
                 /\ ended(t, saveReturns(data))
            ELSE /\ task' = ProcUpd(t, [pc |-> "probe", data |-> data])
                 /\ UNCHANGED <<lock, hist>>

\* load_: the cache hit, or await stat(dbfile)
ProcLoad(t) ==
    /\ task[t].pc = "load"
    /\ IF cacheHit(cache)
       THEN resolved(t, cache.map)
       ELSE /\ task' = ProcUpd(t, [pc |-> "read"])
            /\ UNCHANGED <<cache, lock, hist>>
    /\ UNCHANGED <<file, procOff>>

\* load_: the stream reads the file to its end
ProcRead(t) ==
    /\ task[t].pc = "read"
    /\ task' = ProcUpd(t, [pc |-> "close",
                 ctx |-> forEachLine([recs |-> <<>>, errs |-> <<>>],
                                     lines(file.text), now, 1).recs])
    /\ UNCHANGED <<file, cache, lock, hist, procOff>>

\* load_, rl.on("close"): CACHE.set(dbfile, ctx.recs), resolve(ctx.recs)
ProcClose(t) ==
    /\ task[t].pc = "close"
    /\ resolved(t, task[t].ctx)
    /\ UNCHANGED <<file, procOff>>

\* save: await stat(dbfile), await fileEndsWithNewline(dbfile, onErrors)
ProcProbe(t) ==
    /\ task[t].pc = "probe"
    /\ task' = ProcUpd(t, [pc |-> "append", nl |-> fileEndsWithNewline(file).ends])
    /\ UNCHANGED <<file, cache, lock, hist, procOff>>

\* save: open, write, sync, close; return unwrap(current)
ProcAppend(t) ==
    /\ task[t].pc = "append"
    /\ file' = [file EXCEPT !.text = @ \o toAppend(task[t].nl, task[t].data.str)]
    /\ task' = ProcUpd(t, [pc |-> "done", ret |-> saveReturns(task[t].data)])
    /\ ended(t, saveReturns(task[t].data))
    /\ UNCHANGED <<cache, procOff>>

\* the caller has taken the result of the call
ProcReturn(t) ==
    /\ task[t].pc = "done"
    /\ task' = ProcUpd(t, [pc |-> "idle"])
    /\ UNCHANGED <<file, cache, lock, hist, procOff>>

NextProc ==
    \E t \in Callers :
        \/ ProcStart(t)
        \/ ProcAcquire(t)
        \/ ProcLoad(t)
        \/ ProcRead(t)
        \/ ProcClose(t)
        \/ ProcProbe(t)
        \/ ProcAppend(t)
        \/ ProcReturn(t)

SpecProc == InitProc /\ [][NextProc]_vars

\* a load that has returned gives, for every id a save had returned before
\* the load began, a version at least as new as the one the save returned
ReadsItsWrites(t) ==
    (task[t].pc = "done" /\ task[t].op = "load") =>
        /\ task[t].ret.ok
        /\ \A id \in Ids : tmIn(task[t].ret.recs, id) >= task[t].owed[id]

\* C36 as claimed: read-your-writes in one process, also when other load
\* or save calls were in flight together with the save.
C36_ReadYourWrites_AsClaimed == \A t \in Callers : ReadsItsWrites(t)

\* C36: read-your-writes in one process when its calls on the path are made
\* one after the other: after save has returned a list in which an id has
\* version r, every later load of the path (no clearCache, no change from
\* outside) returns for that id a version at least as new as r.
C36_ReadYourWrites ==
    ~hist.overlapped => \A t \in Callers : ReadsItsWrites(t)

\* calls made one after the other: a load has returned the record that a
\* save before it wrote
C36_Witness ==
    /\ ~hist.overlapped
    /\ \E t \in Callers :
          /\ task[t].pc = "done" /\ task[t].op = "load" /\ task[t].ret.ok
          /\ task[t].owed["2"] = RecC.tm
          /\ tmIn(task[t].ret.recs, "2") = RecC.tm

-----------------------------------------------------------------------------
(* The cache after a create that failed *)

\* C37: a create that returns null leaves the cache entry of the path as
\* it was before the call.
C37_FailedCreateFrame ==
    (last.op = "create" /\ last.ret = Null) => cache = last.cache0

\* the same for the create that finds the file in place
FailedCreateFrameOnExisting ==
    (last.op = "create" /\ last.ret = Null /\ last.file0.exists)
        => cache = last.cache0

-----------------------------------------------------------------------------
(* Timestamps as supplied.  One record is submitted to create on a path    *)
(* without file, or to save on a log, with a tm that is negative, 0,       *)
(* positive, or absent.                                                    *)

BelowZero == 1      \* supplied timestamps go down to -BelowZero

TmRecs ==
    {[id |-> i, tm |-> t, val |-> v] : i \in Ids, t \in (0 - BelowZero)..MaxTm, v \in {1, 2}}
        \cup {[id |-> i, val |-> v] : i \in Ids, v \in {1, 2}}

\* the logs save finds, every one ending with a newline
TmLogs ==
    { [exists |-> TRUE, text |-> <<>>],
      [exists |-> TRUE, text |-> <<stringify(RecA), NL>>],
      [exists |-> TRUE, text |-> <<stringify([id |-> "1", tm |-> 2, val |-> 1]), NL>>] }

InitTm ==
    /\ args \in [op : {"create"}, file : {NoFile}, rec : TmRecs, t : 1..MaxClock]
              \cup [op : {"save"}, file : TmLogs, rec : TmRecs, t : 1..MaxClock]
    /\ result = NotCalled
    /\ file = NoFile /\ cache = NoEntry /\ now = 1 /\ last = Idle
    /\ maxSeen = [id \in Ids |-> 0] /\ fresh = Null
    /\ StepsOff /\ PathsOff

\* create([rec], dbfile) or save([rec], dbfile) with no cache entry, at
\* clock reading t
Submit ==
    /\ result = NotCalled
    /\ result' =
          [called |-> TRUE,
           out |-> IF args.op = "create"
                   THEN create(<<args.rec>>, NoEntry, args.file, <<args.t>>)
                   ELSE save(<<args.rec>>, NoEntry, args.file, DefaultMaxBytes,
                             <<args.t>>, args.t)]
    /\ UNCHANGED <<args, callVars, stepVars, pathVars>>

NextTm == Submit

SpecTm == InitTm /\ [][NextTm]_vars

\* the record as it is to be merged: with the tm it came with, or with
\* the clock reading when it came without a tm field
asGiven == IF Has(args.rec, "tm") THEN args.rec ELSE WithTm(args.rec, args.t)

\* the version of the record's id in the log that was found
inLog(id) ==
    LET st == replayState(logRecs(args.file)) IN
    IF \E i \in 1..Len(st) : st[i].id = id THEN recOf(st, id) ELSE NoRec

\* the merge rule applied to the record as given
givenSupersedes ==
    LET cur == inLog(asGiven.id) IN
    \/ cur = NoRec
    \/ cur.tm < asGiven.tm
    \/ (cur.tm = asGiven.tm /\ cur.val # asGiven.val)

\* the file after the record as given has been merged and written
fileAsGiven ==
    IF givenSupersedes THEN args.file.text \o <<stringify(asGiven), NL>>
    ELSE args.file.text

\* C38: a record submitted with a numeric tm, 0 and negative values
\* included, is merged and written with that tm; only a record without tm
\* field gets the clock reading.
C38_TmKept == result.called => result.out.file.text = fileAsGiven

\* the same for every tm other than 0
TmKeptUnlessZero ==
    (result.called /\ (Has(args.rec, "tm") => args.rec.tm # 0))
        => result.out.file.text = fileAsGiven

\* a record with a negative tm has been written by create with that tm
NegativeTmKept ==
    /\ result.called /\ args.op = "create"
    /\ Has(args.rec, "tm") /\ args.rec.tm < 0
    /\ result.out.file.text = <<stringify(args.rec), NL>>

-----------------------------------------------------------------------------
(* What is written and what is read back.  One record is submitted to      *)
(* create on a path without file, or to save on a log; the record's id and *)
(* tm have the types the schema asks for or other ones, or are absent.     *)
(* The file that results is then loaded with no cache entry.               *)

\* the types an id and a tm come with, besides string and number
OtherTypes ==
    { [id |-> "number"], [tm |-> "string"], [id |-> "number", tm |-> "string"] }

AgreeRecs ==
    {[id |-> i, tm |-> t, val |-> 1] : i \in Ids, t \in 1..MaxTm}
        \cup {[id |-> i, val |-> 1] : i \in Ids}
        \cup {[tm |-> t, val |-> 1] : t \in 1..MaxTm}
        \cup {[id |-> i, tm |-> t, val |-> 1, typeof |-> ty] :
                 i \in Ids, t \in 1..MaxTm, ty \in OtherTypes}
        \cup {[id |-> i, val |-> 1, typeof |-> [id |-> "number"]] : i \in Ids}

InitAgree ==
    /\ args \in [op : {"create"}, file : {NoFile}, rec : AgreeRecs, t : 1..MaxClock]
              \cup [op : {"save"}, file : TmLogs, rec : AgreeRecs, t : 1..MaxClock]
    /\ result = NotCalled
    /\ file = NoFile /\ cache = NoEntry /\ now = 1 /\ last = Idle
    /\ maxSeen = [id \in Ids |-> 0] /\ fresh = Null
    /\ StepsOff /\ PathsOff

\* clearCache(dbfile), then load(dbfile) of the file the call has left
Reload ==
    /\ result.called /\ ~Has(result, "loaded")
    /\ result' =
          [called |-> TRUE, out |-> result.out,
           loaded |-> load(NoEntry, result.out.file, DefaultMaxBytes, args.t)]
    /\ UNCHANGED <<args, callVars, stepVars, pathVars>>

NextAgree == Submit \/ Reload

SpecAgree == InitAgree /\ [][NextAgree]_vars

\* the call has written the record it was given
WroteIt ==
    /\ result.called /\ result.out.ret.ok
    /\ result.out.file.text # args.file.text

\* C39: after a save or create that wrote its record, a load of the file
\* from an empty cache reports no line as invalid.
C39_WriterReaderAgree ==
    (Has(result, "loaded") /\ WroteIt) => lineReports(result.loaded.errs) = <<>>

\* the same for a record whose id is a string and whose tm is a number
AgreeWhenTyped ==
    (Has(result, "loaded") /\ WroteIt /\ ~Has(args.rec, "typeof"))
        => lineReports(result.loaded.errs) = <<>>

\* a record whose id is a number has been written and the load has
\* reported its line
NumericIdReported ==
    /\ Has(result, "loaded") /\ WroteIt
    /\ Has(args.rec, "typeof") /\ typeOf(args.rec, "id") = "number"
    /\ lineReports(result.loaded.errs) # <<>>


====
